---- MODULE Spec2Model ----
(***************************************************************************)
(* A model of the PNG decoder of png-editor: the CRC engine, the chunk     *)
(* reader, the IHDR/PLTE/tRNS/IDAT parsers and the chunk loop of           *)
(* png_read_file with its second stage (inflate, reverse filtering).       *)
(*                                                                         *)
(* A uint32_t is a Word: the tuple <<b3, b2, b1, b0>> of its four octets,  *)
(* most significant first, because the values do not fit a TLC integer.    *)
(***************************************************************************)
EXTENDS Integers, Naturals, Sequences, FiniteSets, TLC

\* ------------------------------------------------------------------------
\* Bounds of the model
\* ------------------------------------------------------------------------
\* longest chunk sequence the chunk loop is fed
MaxChunks == 5
\* longest payload in the CRC experiments
MaxPayload == 2
\* most octets of a raster in the filter experiment
MaxRaster == 4
\* most octets of the pixel rows in the conversion experiment
MaxSource == 4
\* most octets a compressed stream inflates to in the inflate experiment
MaxInflated == 16385
\* the number of entries of the CRC table in the experiment with threads
MaxTable == 3
\* the number of DisplayImage calls of the viewer
MaxLoads == 2

\* ------------------------------------------------------------------------
\* Octets and 32-bit words
\* ------------------------------------------------------------------------
Byte == 0..255

RECURSIVE Xor8Bits(_, _, _)
\* a ^ b on the n low bits of two octets
Xor8Bits(a, b, n) ==
    IF n = 0 THEN 0
    ELSE ((a + b) % 2) + 2 * Xor8Bits(a \div 2, b \div 2, n - 1)

\* the C operator ^ on two octets, tabulated once
XorTable == [a \in Byte |-> [b \in Byte |-> Xor8Bits(a, b, 8)]]

Xor8(a, b) == XorTable[a][b]

\* the C operator ^ on two uint32_t
Xor32(v, w) == <<Xor8(v[1], w[1]), Xor8(v[2], w[2]), Xor8(v[3], w[3]), Xor8(v[4], w[4])>>

\* v >> 1 on a uint32_t
Shr1(v) == <<v[1] \div 2,
             (v[1] % 2) * 128 + v[2] \div 2,
             (v[2] % 2) * 128 + v[3] \div 2,
             (v[3] % 2) * 128 + v[4] \div 2>>

\* v >> 8 on a uint32_t
Shr8(v) == <<0, v[1], v[2], v[3]>>

\* the uint32_t of a small non-negative integer constant (below 2^31)
U32(n) == <<(n \div 16777216) % 256, (n \div 65536) % 256, (n \div 256) % 256, n % 256>>

\* the integer of a uint32_t whose top bit is clear
ToNat(w) == ((w[1] * 256 + w[2]) * 256 + w[3]) * 256 + w[4]

TopBit(w) == w[1] >= 128

Zero32 == <<0, 0, 0, 0>>
Ones32 == <<255, 255, 255, 255>>

\* read_uint32_be: four octets, big-endian, as a uint32_t
read_uint32_be(data, off) == <<data[off + 1], data[off + 2], data[off + 3], data[off + 4]>>

\* ------------------------------------------------------------------------
\* CRC engine (png_crc32)
\* ------------------------------------------------------------------------
\* the reflected CRC-32 polynomial 0xEDB88320
CrcPoly == <<237, 184, 131, 32>>

RECURSIVE CrcTableStep(_, _)
\* the inner loop of the table construction: k shift/xor steps on c
CrcTableStep(c, k) ==
    IF k = 0 THEN c
    ELSE CrcTableStep(IF c[4] % 2 = 1 THEN Xor32(CrcPoly, Shr1(c)) ELSE Shr1(c), k - 1)

\* the static table crc_table[256] once crc_table_computed is set
crc_table == [i \in Byte |-> CrcTableStep(<<0, 0, 0, i>>, 8)]

RECURSIVE CrcLoop(_, _, _)
\* the byte loop of png_crc32 from index i (1-based) to the end of buf; the
\* test that crc is a word only makes TLC evaluate crc before the next octet
CrcLoop(crc, buf, i) ==
    IF i > Len(buf) \/ crc \notin Seq(Byte) THEN crc
    ELSE CrcLoop(Xor32(crc_table[Xor8(crc[4], buf[i])], Shr8(crc)), buf, i + 1)

\* png_crc32 without the pre-conditioning XOR (the running CRC is taken as is)
CrcPreOmitted(crc) == crc

\* the pre-conditioning crc = crc ^ 0xFFFFFFFF of png_crc32
CrcPre(crc) == Xor32(crc, Ones32)

\* png_crc32(crc, buf, len)
png_crc32(crc, buf) == Xor32(CrcLoop(CrcPre(crc), buf, 1), Ones32)

\* ------------------------------------------------------------------------
\* Program constants (png_decoder.h)
\* ------------------------------------------------------------------------
MAX_CHUNK_LENGTH == 104857600
PNG_CHUNK_IHDR == 1229472850
PNG_CHUNK_IDAT == 1229209940
PNG_CHUNK_IEND == 1229278788
PNG_CHUNK_PLTE == 1347179589
PNG_CHUNK_tRNS == 1951551059
PNG_COLOR_TYPE_GRAY == 0
PNG_COLOR_TYPE_RGB == 2
PNG_COLOR_TYPE_PALETTE == 3
PNG_COLOR_TYPE_GRAY_ALPHA == 4
PNG_COLOR_TYPE_RGBA == 6
PNG_COMPRESSION_METHOD_DEFLATE == 0
PNG_FILTER_METHOD_ADAPTIVE == 0
PNG_INTERLACE_METHOD_NONE == 0
PNG_INTERLACE_METHOD_ADAM7 == 1
PNG_SIGNATURE == <<137, 80, 78, 71, 13, 10, 26, 10>>
PNG_SIGNATURE_SIZE == 8

\* ------------------------------------------------------------------------
\* Chunk reader (png_read_chunk)
\* ------------------------------------------------------------------------
\* memset(chunk, 0, sizeof(PNG_Chunk))
ZeroChunk == [length |-> 0, type |-> Zero32, data |-> <<>>, crc |-> Zero32]

\* The octets the file offers for one chunk: raw.len, raw.type and raw.crc
\* are the four octets of each field, raw.data the payload octets, and
\* raw.cut the field in which the file ends ("none": the chunk is whole).

\* chunk->length > MAX_CHUNK_LENGTH on the uint32_t just read
LengthTooLarge(w) == TopBit(w) \/ ToNat(w) > MAX_CHUNK_LENGTH

\* step 5 of png_read_chunk: the CRC over the type octets, then the payload
calculated_crc(type_buf, data) ==
    IF Len(data) > 0
    THEN png_crc32(png_crc32(Zero32, type_buf), data)
    ELSE png_crc32(Zero32, type_buf)

\* png_read_chunk(file, chunk): [ok |-> return value, chunk |-> *chunk]
png_read_chunk(raw) ==
    IF raw.cut = "len" THEN [ok |-> 0, chunk |-> ZeroChunk]
    ELSE IF LengthTooLarge(read_uint32_be(raw.len, 0)) THEN [ok |-> 0, chunk |-> ZeroChunk]
    ELSE IF raw.cut = "type" THEN [ok |-> 0, chunk |-> ZeroChunk]
    ELSE IF ToNat(read_uint32_be(raw.len, 0)) > 0 /\ raw.cut = "data"
         THEN [ok |-> 0, chunk |-> ZeroChunk]
    ELSE IF raw.cut = "crc" THEN [ok |-> 0, chunk |-> ZeroChunk]
    ELSE IF calculated_crc(raw.type, raw.data) # read_uint32_be(raw.crc, 0)
         THEN [ok |-> 0, chunk |-> ZeroChunk]
    ELSE [ok |-> 1,
          chunk |-> [length |-> ToNat(read_uint32_be(raw.len, 0)),
                     type |-> read_uint32_be(raw.type, 0),
                     data |-> raw.data,
                     crc |-> read_uint32_be(raw.crc, 0)]]

\* ------------------------------------------------------------------------
\* IHDR (png_parse_ihdr)
\* ------------------------------------------------------------------------
\* memset of the PNG_IHDR inside PNG_Image
ZeroHeader == [width |-> Zero32, height |-> Zero32, bit_depth |-> 0, color_type |-> 0,
               compression_method |-> 0, filter_method |-> 0, interlace_method |-> 0]

\* the field assignments of png_parse_ihdr from the 13 payload octets
IhdrFields(data) ==
    [width |-> read_uint32_be(data, 0),
     height |-> read_uint32_be(data, 4),
     bit_depth |-> data[9],
     color_type |-> data[10],
     compression_method |-> data[11],
     filter_method |-> data[12],
     interlace_method |-> data[13]]

\* the switch of png_parse_ihdr on colour type and bit depth
ColorDepthOk(color_type, bit_depth) ==
    CASE color_type = PNG_COLOR_TYPE_GRAY -> bit_depth \in {1, 2, 4, 8, 16}
      [] color_type = PNG_COLOR_TYPE_RGB -> bit_depth \in {8, 16}
      [] color_type = PNG_COLOR_TYPE_PALETTE -> bit_depth \in {1, 2, 4, 8}
      [] color_type \in {PNG_COLOR_TYPE_GRAY_ALPHA, PNG_COLOR_TYPE_RGBA} -> bit_depth \in {8, 16}
      [] OTHER -> FALSE

\* the checks of png_parse_ihdr on the fields it has stored
IhdrChecks(h) ==
    /\ ~(h.width = Zero32 \/ h.height = Zero32)
    /\ h.compression_method = PNG_COMPRESSION_METHOD_DEFLATE
    /\ h.filter_method = PNG_FILTER_METHOD_ADAPTIVE
    /\ ~(h.interlace_method # PNG_INTERLACE_METHOD_NONE
         /\ h.interlace_method # PNG_INTERLACE_METHOD_ADAM7)
    /\ ColorDepthOk(h.color_type, h.bit_depth)

\* png_parse_ihdr(chunk, ihdr): [ok |-> return value, ihdr |-> *ihdr];
\* old is *ihdr before the call
png_parse_ihdr(chunk, old) ==
    IF chunk.length # 13 THEN [ok |-> 0, ihdr |-> old]
    ELSE [ok |-> IF IhdrChecks(IhdrFields(chunk.data)) THEN 1 ELSE 0,
          ihdr |-> IhdrFields(chunk.data)]

\* ------------------------------------------------------------------------
\* PLTE, tRNS, IDAT
\* ------------------------------------------------------------------------
\* png_parse_plte: [ok, palette, palette_size]; the payloads fed here have
\* at least one entry, so malloc is never asked for zero octets
png_parse_plte(chunk, old_palette, old_size) ==
    IF chunk.length % 3 # 0 \/ chunk.length > 768
    THEN [ok |-> 0, palette |-> old_palette, palette_size |-> old_size]
    ELSE [ok |-> 1,
          palette |-> [i \in 1..(chunk.length \div 3) |->
                         [red |-> chunk.data[(i - 1) * 3 + 1],
                          green |-> chunk.data[(i - 1) * 3 + 2],
                          blue |-> chunk.data[(i - 1) * 3 + 3]]],
          palette_size |-> chunk.length \div 3]

\* the length switch of png_parse_trns
TrnsLengthOk(color_type, length) ==
    CASE color_type = PNG_COLOR_TYPE_GRAY -> length = 2
      [] color_type = PNG_COLOR_TYPE_RGB -> length = 6
      [] color_type = PNG_COLOR_TYPE_PALETTE -> ~(length = 0 \/ length > 256)
      [] OTHER -> FALSE

\* png_parse_trns: [ok, transparency, transparency_size]
png_parse_trns(chunk, color_type, old_trns, old_size) ==
    IF ~TrnsLengthOk(color_type, chunk.length)
    THEN [ok |-> 0, transparency |-> old_trns, transparency_size |-> old_size]
    ELSE [ok |-> 1, transparency |-> chunk.data, transparency_size |-> chunk.length]

\* png_process_idat: [ok, image_data, image_data_size]
png_process_idat(chunk, image_data, image_data_size) ==
    IF image_data_size = 0
    THEN [ok |-> 1, image_data |-> chunk.data, image_data_size |-> chunk.length]
    ELSE [ok |-> 1, image_data |-> image_data \o chunk.data,
          image_data_size |-> image_data_size + chunk.length]

\* ------------------------------------------------------------------------
\* Reverse filtering (png_apply_filters)
\* ------------------------------------------------------------------------
\* bytes_per_pixel left at one octet whatever the colour type
bytes_per_pixel_one(h) == 1

\* the switch on colour type, then the sub-byte and 16-bit adjustments
bytes_per_pixel(h) ==
    IF h.bit_depth < 8 /\ h.color_type \in {PNG_COLOR_TYPE_GRAY, PNG_COLOR_TYPE_PALETTE}
    THEN 1
    ELSE (CASE h.color_type = PNG_COLOR_TYPE_GRAY -> (IF h.bit_depth >= 8 THEN 1 ELSE 0)
            [] h.color_type = PNG_COLOR_TYPE_RGB -> 3 * (IF h.bit_depth >= 8 THEN 1 ELSE 0)
            [] h.color_type = PNG_COLOR_TYPE_PALETTE -> 1
            [] h.color_type = PNG_COLOR_TYPE_GRAY_ALPHA -> 2 * (IF h.bit_depth >= 8 THEN 1 ELSE 0)
            [] h.color_type = PNG_COLOR_TYPE_RGBA -> 4 * (IF h.bit_depth >= 8 THEN 1 ELSE 0)
            [] OTHER -> 0)
         * (IF h.bit_depth = 16 THEN 2 ELSE 1)

\* the local width, taken for an Adam7 stream as the width of its first
\* pass, (width + 7) / 8
line_width_first_pass(h) ==
    LET w == IF h.interlace_method = PNG_INTERLACE_METHOD_ADAM7
             THEN (ToNat(h.width) + 7) \div 8 ELSE ToNat(h.width)
    IN IF h.bit_depth < 8 /\ h.color_type \in {PNG_COLOR_TYPE_GRAY, PNG_COLOR_TYPE_PALETTE}
       THEN (w * h.bit_depth + 7) \div 8
       ELSE w

\* the local width after the sub-byte adjustment (small widths only)
line_width(h) ==
    IF h.bit_depth < 8 /\ h.color_type \in {PNG_COLOR_TYPE_GRAY, PNG_COLOR_TYPE_PALETTE}
    THEN (ToNat(h.width) * h.bit_depth + 7) \div 8
    ELSE ToNat(h.width)

bytes_per_line(h) == line_width(h) * bytes_per_pixel(h)

expected_size(h) == ToNat(h.height) * (bytes_per_line(h) + 1)

Abs(n) == IF n < 0 THEN -n ELSE n

\* the switch on filter_type with an Average that rounds half up
PredictorRoundedAverage(ft, left, above, upper_left) ==
    CASE ft = 0 -> 0
      [] ft = 1 -> left
      [] ft = 2 -> above
      [] ft = 3 -> (left + above + 1) \div 2
      [] ft = 4 -> (LET p == left + above - upper_left
                        pa == Abs(p - left)
                        pb == Abs(p - above)
                        pc4 == Abs(p - upper_left)
                    IN IF pa <= pb /\ pa <= pc4 THEN left
                       ELSE IF pb <= pc4 THEN above ELSE upper_left)

\* the value added to current_line[x] by the switch on filter_type
Predictor(ft, left, above, upper_left) ==
    CASE ft = 0 -> 0
      [] ft = 1 -> left
      [] ft = 2 -> above
      [] ft = 3 -> (left + above) \div 2
      [] ft = 4 -> (LET p == left + above - upper_left
                        pa == Abs(p - left)
                        pb == Abs(p - above)
                        pc4 == Abs(p - upper_left)
                    IN IF pa <= pb /\ pa <= pc4 THEN left
                       ELSE IF pb <= pc4 THEN above ELSE upper_left)

RECURSIVE FilterLine(_, _, _, _, _)
\* the inner loop over x (1-based) of one scanline
FilterLine(ft, cur, prev, bpp, x) ==
    IF x > Len(cur) THEN cur
    ELSE LET left == IF x - 1 >= bpp THEN cur[x - bpp] ELSE 0
             above == prev[x]
             upper_left == IF x - 1 >= bpp THEN prev[x - bpp] ELSE 0
         IN FilterLine(ft,
                       [cur EXCEPT ![x] = (cur[x] + Predictor(ft, left, above, upper_left)) % 256],
                       prev, bpp, x + 1)

RECURSIVE FilterRows(_, _, _, _, _, _, _)
\* the loop over the scanlines from row y on; g is the octet found one past
\* the end of current_line, which memcpy(output_ptr, current_line,
\* bytes_per_line + 1) copies into the image (the value of that octet is
\* not determined by the program; the copy of the same bytes_per_line + 1
\* octets into prev_line is taken to land in the allocator's padding).
\* lines lists current_line as it stands at the end of each row.
FilterRows(data, prev, y, height, bpl, bpp, g) ==
    IF y >= height THEN [ok |-> 1, data |-> data, lines |-> <<>>]
    ELSE LET ft == data[y * (bpl + 1) + 1]
             src == [x \in 1..bpl |-> data[y * (bpl + 1) + 1 + x]]
             cur == FilterLine(ft, src, prev, bpp, 1)
             out == [i \in 1..Len(data) |->
                        IF i > y * bpl /\ i <= y * bpl + bpl THEN cur[i - y * bpl]
                        ELSE IF i = y * bpl + bpl + 1 THEN g
                        ELSE data[i]]
             rest == FilterRows(out, cur, y + 1, height, bpl, bpp, g)
         IN IF ft > 4 THEN [ok |-> 0, data |-> data, lines |-> <<>>]
            ELSE [ok |-> rest.ok, data |-> rest.data, lines |-> <<cur>> \o rest.lines]

\* png_apply_filters followed by memmove(image_data, image_data + height,
\* bytes_per_line * height), as the older src/png_decoder.c ends
png_apply_filters_memmove(image_data, image_data_size, h, g) ==
    IF h.width = Zero32 \/ h.height = Zero32
    THEN [ok |-> 0, data |-> image_data, lines |-> <<>>]
    ELSE IF h.color_type \notin {PNG_COLOR_TYPE_GRAY, PNG_COLOR_TYPE_RGB, PNG_COLOR_TYPE_PALETTE,
                                PNG_COLOR_TYPE_GRAY_ALPHA, PNG_COLOR_TYPE_RGBA}
         THEN [ok |-> 0, data |-> image_data, lines |-> <<>>]
    ELSE IF bytes_per_line(h) = 0 THEN [ok |-> 0, data |-> image_data, lines |-> <<>>]
    ELSE IF image_data_size < expected_size(h)
         THEN [ok |-> 0, data |-> image_data, lines |-> <<>>]
    ELSE LET r == FilterRows(image_data, [x \in 1..bytes_per_line(h) |-> 0], 0,
                             ToNat(h.height), bytes_per_line(h), bytes_per_pixel(h), g)
             n == bytes_per_line(h) * ToNat(h.height)
         IN [ok |-> r.ok, lines |-> r.lines,
             data |-> [i \in 1..Len(r.data) |->
                         IF i <= n THEN r.data[i + ToNat(h.height)] ELSE r.data[i]]]

\* png_apply_filters(image_data, image_data_size, header): [ok, data, lines]
png_apply_filters(image_data, image_data_size, h, g) ==
    IF h.width = Zero32 \/ h.height = Zero32
    THEN [ok |-> 0, data |-> image_data, lines |-> <<>>]
    ELSE IF h.color_type \notin {PNG_COLOR_TYPE_GRAY, PNG_COLOR_TYPE_RGB, PNG_COLOR_TYPE_PALETTE,
                                PNG_COLOR_TYPE_GRAY_ALPHA, PNG_COLOR_TYPE_RGBA}
         THEN [ok |-> 0, data |-> image_data, lines |-> <<>>]
    ELSE IF bytes_per_line(h) = 0 THEN [ok |-> 0, data |-> image_data, lines |-> <<>>]
    ELSE IF image_data_size < expected_size(h)
         THEN [ok |-> 0, data |-> image_data, lines |-> <<>>]
    ELSE FilterRows(image_data, [x \in 1..bytes_per_line(h) |-> 0], 0, ToNat(h.height),
                    bytes_per_line(h), bytes_per_pixel(h), g)

\* one access: octets lo .. hi (counted from 0) of a buffer, read or
\* written while row y is processed
Access(buf, op, y, lo, hi) == [buf |-> buf, op |-> op, y |-> y, lo |-> lo, hi |-> hi]

\* the accesses of one pass of the loop over y: the filter byte, the memcpy
\* into current_line, the loop over x, and the two memcpy of
\* bytes_per_line + 1 octets out of current_line
RowAccesses(y, bpl) ==
    { Access("image_data", "read", y, y * (bpl + 1), y * (bpl + 1)),
      Access("image_data", "read", y, y * (bpl + 1) + 1, y * (bpl + 1) + bpl),
      Access("current_line", "write", y, 0, bpl - 1),
      Access("current_line", "read", y, 0, bpl - 1),
      Access("prev_line", "read", y, 0, bpl - 1),
      Access("current_line", "read", y, 0, bpl),
      Access("image_data", "write", y, y * bpl, y * bpl + bpl),
      Access("prev_line", "write", y, 0, bpl) }

\* the accesses of a call of png_apply_filters with result r: none when it
\* returns before the loop, every row it finished, and the filter byte of
\* the row it rejected
FilterAccesses(r, image_data_size, h) ==
    IF \/ h.width = Zero32 \/ h.height = Zero32
       \/ h.color_type \notin {PNG_COLOR_TYPE_GRAY, PNG_COLOR_TYPE_RGB,
                                PNG_COLOR_TYPE_PALETTE, PNG_COLOR_TYPE_GRAY_ALPHA,
                                PNG_COLOR_TYPE_RGBA}
       \/ bytes_per_line(h) = 0
       \/ image_data_size < expected_size(h)
    THEN {}
    ELSE UNION { RowAccesses(y, bytes_per_line(h)) : y \in 0..(Len(r.lines) - 1) }
         \cup (IF r.ok = 0
               THEN { Access("image_data", "read", Len(r.lines),
                             Len(r.lines) * (bytes_per_line(h) + 1),
                             Len(r.lines) * (bytes_per_line(h) + 1)) }
               ELSE {})

\* ------------------------------------------------------------------------
\* uint32_t arithmetic (wraps modulo 2^32)
\* ------------------------------------------------------------------------
\* v + w on two uint32_t
Add32(v, w) ==
    LET s4 == v[4] + w[4]
        s3 == v[3] + w[3] + s4 \div 256
        s2 == v[2] + w[2] + s3 \div 256
        s1 == v[1] + w[1] + s2 \div 256
    IN <<s1 % 256, s2 % 256, s3 % 256, s4 % 256>>

\* v * k on a uint32_t and a small non-negative integer (k < 2^16)
MulSmall32(v, k) ==
    LET p4 == v[4] * k
        p3 == v[3] * k + p4 \div 256
        p2 == v[2] * k + p3 \div 256
        p1 == v[1] * k + p2 \div 256
    IN <<p1 % 256, p2 % 256, p3 % 256, p4 % 256>>

\* v << 8 on a uint32_t
Shl8(v) == <<v[2], v[3], v[4], 0>>

\* v * w on two uint32_t, octet by octet of w
Mul32(v, w) ==
    Add32(MulSmall32(v, w[4]),
          Shl8(Add32(MulSmall32(v, w[3]),
                     Shl8(Add32(MulSmall32(v, w[2]),
                                Shl8(MulSmall32(v, w[1])))))))

\* v / 8 on a uint32_t
Div8(v) == Shr1(Shr1(Shr1(v)))

\* n < w for a small non-negative integer n and a uint32_t w
LessThan32(n, w) == IF TopBit(w) THEN TRUE ELSE n < ToNat(w)

\* ------------------------------------------------------------------------
\* RGBA conversion (png_convert_to_rgba)
\* ------------------------------------------------------------------------
\* *output_size = width * height * 4
output_size(h) == MulSmall32(Mul32(h.width, h.height), 4)

\* src_bpp after the switch on colour type and the 16-bit adjustment
src_bpp(h) ==
    (CASE h.color_type = PNG_COLOR_TYPE_GRAY -> (IF h.bit_depth >= 8 THEN 1 ELSE 0)
       [] h.color_type = PNG_COLOR_TYPE_RGB -> 3 * (IF h.bit_depth >= 8 THEN 1 ELSE 0)
       [] h.color_type = PNG_COLOR_TYPE_PALETTE -> 1
       [] h.color_type = PNG_COLOR_TYPE_GRAY_ALPHA -> 2 * (IF h.bit_depth >= 8 THEN 1 ELSE 0)
       [] h.color_type = PNG_COLOR_TYPE_RGBA -> 4 * (IF h.bit_depth >= 8 THEN 1 ELSE 0)
       [] OTHER -> 0)
    * (IF h.bit_depth = 16 THEN 2 ELSE 1)

\* src_row_bytes after the switch on colour type and the 16-bit adjustment
src_row_bytes(h) ==
    MulSmall32(IF h.color_type \in {PNG_COLOR_TYPE_GRAY, PNG_COLOR_TYPE_PALETTE}
               THEN Div8(Add32(MulSmall32(h.width, h.bit_depth), U32(7)))
               ELSE MulSmall32(h.width, src_bpp(h) \div (IF h.bit_depth = 16 THEN 2 ELSE 1)),
               IF h.bit_depth = 16 THEN 2 ELSE 1)

\* the checks made before the pixel loop: 0 when the colour type is unknown
\* or image_data_size < height * src_row_bytes
ConvertChecks(img) ==
    IF img.header.color_type \notin {PNG_COLOR_TYPE_GRAY, PNG_COLOR_TYPE_RGB,
                                     PNG_COLOR_TYPE_PALETTE, PNG_COLOR_TYPE_GRAY_ALPHA,
                                     PNG_COLOR_TYPE_RGBA}
    THEN 0
    ELSE IF LessThan32(img.image_data_size, Mul32(img.header.height, src_row_bytes(img.header)))
         THEN 0
    ELSE 1

\* src[k] (k counted from 0): an octet of image_data; octets of the buffer
\* past the ones listed in image_data are zero, and u is what a read past
\* the end of the buffer finds
SrcAt(img, k, u) ==
    IF k < Len(img.image_data) THEN img.image_data[k + 1]
    ELSE IF k < img.image_data_size THEN 0
    ELSE u

\* (src_row[(x * bit_depth) / 8] >> shift) & mask for a bit depth below 8
PackedSample(img, row, x, u) ==
    LET bd == img.header.bit_depth
        shift == (8 - bd) - ((x * bd) % 8)
    IN (SrcAt(img, row + (x * bd) \div 8, u) \div (2 ^ shift)) % (2 ^ bd)

\* the switch on colour type for pixel x of the row at offset row; c is
\* <<r, g, b, a>> as the previous pixel of the row left them
PixelSwitch(img, row, x, c, u) ==
    LET bd == img.header.bit_depth
        ct == img.header.color_type
        S(k) == SrcAt(img, row + k, u)
    IN CASE ct = PNG_COLOR_TYPE_GRAY ->
              (LET v == IF bd = 16 THEN S(x * 2)
                        ELSE IF bd >= 8 THEN S(x)
                        ELSE (PackedSample(img, row, x, u) * 255) \div (2 ^ bd - 1)
               IN <<v, v, v, c[4]>>)
         [] ct = PNG_COLOR_TYPE_RGB ->
              (IF bd = 16 THEN <<S(x * 6), S(x * 6 + 2), S(x * 6 + 4), c[4]>>
               ELSE <<S(x * 3), S(x * 3 + 1), S(x * 3 + 2), c[4]>>)
         [] ct = PNG_COLOR_TYPE_PALETTE ->
              (LET index == IF bd = 16 THEN S(x * 2) * 256 + S(x * 2 + 1)
                            ELSE IF bd >= 8 THEN S(x)
                            ELSE PackedSample(img, row, x, u)
                   tindex == IF bd >= 8 THEN S(x) ELSE PackedSample(img, row, x, u)
                   rgb == IF index < img.palette_size
                          THEN <<img.palette[index + 1].red, img.palette[index + 1].green,
                                 img.palette[index + 1].blue>>
                          ELSE <<c[1], c[2], c[3]>>
                   a == IF img.transparency # <<>> /\ tindex < img.transparency_size
                        THEN img.transparency[tindex + 1]
                        ELSE c[4]
               IN rgb \o <<a>>)
         [] ct = PNG_COLOR_TYPE_GRAY_ALPHA ->
              (IF bd = 16 THEN <<S(x * 4), S(x * 4), S(x * 4), S(x * 4 + 2)>>
               ELSE <<S(x * 2), S(x * 2), S(x * 2), S(x * 2 + 1)>>)
         [] ct = PNG_COLOR_TYPE_RGBA ->
              (IF bd = 16 THEN <<S(x * 8), S(x * 8 + 2), S(x * 8 + 4), S(x * 8 + 6)>>
               ELSE <<S(x * 4), S(x * 4 + 1), S(x * 4 + 2), S(x * 4 + 3)>>)

\* the two tRNS blocks after the switch: the alpha of a GRAY or RGB pixel
PixelTrns(img, row, x, c, u) ==
    LET bd == img.header.bit_depth
        ct == img.header.color_type
        S(k) == SrcAt(img, row + k, u)
        T(k) == img.transparency[k + 1]
    IN IF ct = PNG_COLOR_TYPE_GRAY /\ img.transparency # <<>>
       THEN (IF bd = 16
             THEN (IF img.transparency_size >= 2
                   THEN (IF S(x * 2) = T(0) /\ S(x * 2 + 1) = T(1) THEN 0 ELSE 255)
                   ELSE c[4])
             ELSE (IF img.transparency_size >= 1
                   THEN (IF S(x) = T(0) THEN 0 ELSE 255)
                   ELSE c[4]))
       ELSE IF ct = PNG_COLOR_TYPE_RGB /\ img.transparency # <<>>
       THEN (IF bd = 16
             THEN (IF img.transparency_size >= 6
                   THEN (IF \A k \in 0..5 : S(x * 6 + k) = T(k) THEN 0 ELSE 255)
                   ELSE c[4])
             ELSE (IF img.transparency_size >= 3
                   THEN (IF \A k \in 0..2 : S(x * 3 + k) = T(k) THEN 0 ELSE 255)
                   ELSE c[4]))
       ELSE c[4]

RECURSIVE ConvertRow(_, _, _, _, _, _, _)
\* the inner loop over x of one row: [ok, out]; out is the row written so
\* far, four octets B, G, R, A for each pixel
ConvertRow(img, row, x, width, c, out, u) ==
    IF x >= width THEN [ok |-> 1, out |-> out]
    ELSE IF img.header.color_type = PNG_COLOR_TYPE_PALETTE /\ img.palette = <<>>
         THEN [ok |-> 0, out |-> <<>>]
    ELSE LET s == PixelSwitch(img, row, x, c, u)
             p == <<s[1], s[2], s[3], PixelTrns(img, row, x, s, u)>>
         IN ConvertRow(img, row, x + 1, width, p,
                       out \o <<p[3], p[2], p[1], p[4]>>, u)

RECURSIVE ConvertRows(_, _, _, _)
\* the outer loop over y from row y on: [ok, out]; r, g, b start at 0 and
\* a at 255 on every row
ConvertRows(img, y, out, u) ==
    IF y >= ToNat(img.header.height) THEN [ok |-> 1, out |-> out]
    ELSE LET line == ConvertRow(img, y * ToNat(src_row_bytes(img.header)), 0,
                                ToNat(img.header.width), <<0, 0, 0, 255>>, <<>>, u)
         IN IF line.ok = 0 THEN line
            ELSE ConvertRows(img, y + 1, out \o line.out, u)

\* the indices of src_row read for pixel x by the switch on colour type
SwitchReads(h, x) ==
    LET bd == h.bit_depth
        ct == h.color_type
    IN CASE ct = PNG_COLOR_TYPE_GRAY ->
              (IF bd = 16 THEN {x * 2, x * 2 + 1}
               ELSE IF bd >= 8 THEN {x} ELSE {(x * bd) \div 8})
         [] ct = PNG_COLOR_TYPE_RGB ->
              (IF bd = 16 THEN {x * 6, x * 6 + 2, x * 6 + 4}
               ELSE {x * 3, x * 3 + 1, x * 3 + 2})
         [] ct = PNG_COLOR_TYPE_PALETTE ->
              (IF bd = 16 THEN {x * 2, x * 2 + 1}
               ELSE IF bd >= 8 THEN {x} ELSE {(x * bd) \div 8})
         [] ct = PNG_COLOR_TYPE_GRAY_ALPHA ->
              (IF bd = 16 THEN {x * 4, x * 4 + 1, x * 4 + 2, x * 4 + 3}
               ELSE {x * 2, x * 2 + 1})
         [] ct = PNG_COLOR_TYPE_RGBA ->
              (IF bd = 16 THEN {x * 8, x * 8 + 2, x * 8 + 4, x * 8 + 6}
               ELSE {x * 4, x * 4 + 1, x * 4 + 2, x * 4 + 3})

\* the indices of src_row read for pixel x by the tRNS blocks (the palette
\* block inside the switch, the GRAY and RGB blocks after it)
TrnsReads(img, x) ==
    LET bd == img.header.bit_depth
        ct == img.header.color_type
    IN IF img.transparency = <<>> THEN {}
       ELSE CASE ct = PNG_COLOR_TYPE_PALETTE ->
                   (IF bd >= 8 THEN {x} ELSE {(x * bd) \div 8})
              [] ct = PNG_COLOR_TYPE_GRAY ->
                   (IF bd = 16 THEN {x * 2, x * 2 + 1}
                    ELSE IF img.transparency_size >= 1 THEN {x} ELSE {})
              [] ct = PNG_COLOR_TYPE_RGB ->
                   (IF bd = 16
                    THEN (IF img.transparency_size >= 6 THEN (x * 6)..(x * 6 + 5) ELSE {})
                    ELSE (IF img.transparency_size >= 3 THEN (x * 3)..(x * 3 + 2) ELSE {}))
              [] OTHER -> {}

\* the reads of the raw pixel buffer made by the loops over y and x, each
\* with its offset from the start of image_data
ConvertReads(img) ==
    { Access("src", "read", y, y * ToNat(src_row_bytes(img.header)) + k,
             y * ToNat(src_row_bytes(img.header)) + k) :
        y \in 0..(ToNat(img.header.height) - 1),
        k \in UNION { SwitchReads(img.header, x) \cup TrnsReads(img, x) :
                        x \in 0..(ToNat(img.header.width) - 1) } }

\* ------------------------------------------------------------------------
\* Inputs: the files the decoder is run on
\* ------------------------------------------------------------------------
RECURSIVE RefShift(_, _)
\* CRC-32 by its definition: k single-bit steps of the reflected division
RefShift(c, k) ==
    IF k = 0 THEN c
    ELSE RefShift(IF c[4] % 2 = 1 THEN Xor32(Shr1(c), <<237, 184, 131, 32>>) ELSE Shr1(c), k - 1)

RECURSIVE RefBytes(_, _, _)
\* the octets from index i on; the test that c is a word only makes TLC
\* evaluate c before it goes on to the next octet
RefBytes(c, bytes, i) ==
    IF i > Len(bytes) \/ c \notin Seq(Byte) THEN c
    ELSE RefBytes(RefShift(<<c[1], c[2], c[3], Xor8(c[4], bytes[i])>>, 8), bytes, i + 1)

\* the one-shot CRC-32 of an octet string: initial value 0xFFFFFFFF,
\* reflected polynomial 0xEDB88320, final XOR 0xFFFFFFFF
Crc32OneShot(bytes) == Xor32(RefBytes(<<255, 255, 255, 255>>, bytes, 1), <<255, 255, 255, 255>>)

TypeIHDR == <<73, 72, 68, 82>>
TypePLTE == <<80, 76, 84, 69>>
TypeIDAT == <<73, 68, 65, 84>>
TypeIEND == <<73, 69, 78, 68>>
TypetRNS == <<116, 82, 78, 83>>
\* an unknown ancillary type ("tEXt") and an unknown critical type ("JUNK")
TypetEXt == <<116, 69, 88, 116>>
TypeJUNK == <<74, 85, 78, 75>>

\* a whole chunk with a matching CRC
GoodChunk(type, data) ==
    [len |-> U32(Len(data)), type |-> type, data |-> data,
     crc |-> Crc32OneShot(type \o data), cut |-> "none"]

\* the 13 octets of an IHDR payload with small width and height
IhdrPayload(w, h, bd, ct, cm, fm, il) == U32(w) \o U32(h) \o <<bd, ct, cm, fm, il>>

\* the ways a read of the next chunk can fail
FailingChunks ==
    { [GoodChunk(TypeIDAT, <<120>>) EXCEPT !.cut = "len"],
      [GoodChunk(TypeIDAT, <<120>>) EXCEPT !.crc = Xor32(@, <<0, 0, 0, 1>>)],
      [GoodChunk(TypeIDAT, <<>>) EXCEPT !.len = U32(MAX_CHUNK_LENGTH + 1)] }

\* the chunks a file may hold at any position
FileChunks ==
    { GoodChunk(TypeIHDR, IhdrPayload(1, 1, 8, PNG_COLOR_TYPE_GRAY, 0, 0, 0)),
      GoodChunk(TypeIHDR, IhdrPayload(1, 1, 8, PNG_COLOR_TYPE_PALETTE, 0, 0, 0)),
      GoodChunk(TypeIHDR, IhdrPayload(1, 1, 8, PNG_COLOR_TYPE_RGBA, 0, 0, 1)),
      GoodChunk(TypeIHDR, IhdrPayload(1, 1, 8, PNG_COLOR_TYPE_GRAY_ALPHA, 0, 0, 0)),
      GoodChunk(TypeIHDR, IhdrPayload(1, 1, 3, PNG_COLOR_TYPE_GRAY, 0, 0, 0)),
      GoodChunk(TypePLTE, <<10, 20, 30>>),
      GoodChunk(TypePLTE, <<10, 20>>),
      GoodChunk(TypetRNS, <<0, 128>>),
      GoodChunk(TypeIDAT, <<120>>),
      GoodChunk(TypeIEND, <<>>),
      GoodChunk(TypeIEND, <<9>>),
      GoodChunk(TypetEXt, <<65>>),
      GoodChunk(TypeJUNK, <<>>) } \cup FailingChunks

\* what fopen and the first eight octets can be
SignatureInputs ==
    { [open |-> FALSE, sig |-> <<>>],
      [open |-> TRUE, sig |-> PNG_SIGNATURE],
      [open |-> TRUE, sig |-> <<137, 80, 78, 71, 13, 10, 26>>],
      [open |-> TRUE, sig |-> <<137, 80, 78, 71, 13, 10, 26, 13>>] }

\* the number of octets that follow the IEND chunk in the file
TrailingInputs == {0, 12}

\* what inflate (zlib, not part of this program) can deliver for the
\* concatenated IDAT payload: failure, or Z_STREAM_END with these octets
InflateOutcomes ==
    { [ok |-> 0, out |-> <<>>],
      [ok |-> 1, out |-> <<0, 7>>],
      [ok |-> 1, out |-> <<1, 1, 2, 3, 4>>],
      [ok |-> 1, out |-> <<5, 7>>],
      [ok |-> 1, out |-> <<0>>] }

\* the octet that lies one past the end of current_line
GarbageBytes == {0, 170}

\* ------------------------------------------------------------------------
\* State
\* ------------------------------------------------------------------------
VARIABLES
    pc,         \* position in png_read_file, or in one of the unit experiments
    has_ihdr, has_idat, has_iend,   \* the three flags of png_read_file
    image,      \* *image, the PNG_Image
    raw,        \* the octets the last png_read_chunk was offered
    chunk,      \* the local PNG_Chunk
    read,       \* history: <<type, length>> of every chunk read successfully
    trailing,   \* history: octets of the file after the IEND chunk (-1: IEND not reached)
    ret,        \* return value of the call (-1: not returned)
    rgba_data,  \* *output of png_convert_to_rgba: [ptr, bytes], ptr = 0 for NULL
    rgba_size,  \* *output_size of png_convert_to_rgba
    converted,  \* return value of png_convert_to_rgba (-1: not returned)
    raster,     \* filter experiment: the raster and filter types the input was made from
    lines,      \* history: current_line of png_apply_filters after each row
    stream,     \* png_decompress_data: the z_stream and the locals of the inflate loop
    heap,       \* the heap blocks in use, and the pointers of the program that hold them
    calls,      \* history: the functions called by png_read_file and DisplayImage, in order
    accesses,   \* history: the memory accesses of png_apply_filters and png_convert_to_rgba
    crc_table_computed,     \* the static flag of png_crc32
    crc_filled,             \* the indices of the static crc_table written so far
    thread,     \* the position of each thread inside png_crc32
    g_imageData,    \* the global ImageData of the viewer
    view        \* the viewer between and inside its DisplayImage calls

conv_vars == <<rgba_data, rgba_size, converted>>
filter_vars == <<raster, lines>>
mem_vars == <<heap, calls, accesses>>
thread_vars == <<crc_table_computed, crc_filled, thread>>
viewer_vars == <<g_imageData, view>>

vars == <<pc, has_ihdr, has_idat, has_iend, image, raw, chunk, read, trailing, ret,
          rgba_data, rgba_size, converted, raster, lines, stream,
          heap, calls, accesses, crc_table_computed, crc_filled, thread,
          g_imageData, view>>

\* memset(image, 0, sizeof(PNG_Image)); a NULL pointer is the empty sequence
ZeroImage ==
    [header |-> ZeroHeader, palette |-> <<>>, palette_size |-> 0,
     transparency |-> <<>>, transparency_size |-> 0,
     image_data |-> <<>>, image_data_size |-> 0]

\* the values of the variables an experiment does not use
NoRgba == [ptr |-> 0, bytes |-> <<>>]
NoRaster == [header |-> ZeroHeader, pixels |-> <<>>, types |-> <<>>]
NoStream == [kind |-> "none"]
Unused ==
    /\ rgba_data = NoRgba /\ rgba_size = Zero32 /\ converted = -1
    /\ raster = NoRaster /\ lines = <<>>
    /\ stream = NoStream

\* no block allocated and every pointer NULL (0)
NoHeap ==
    [live |-> {}, next |-> 1, twice |-> FALSE,
     chunk |-> 0, palette |-> 0, transparency |-> 0, image_data |-> 0,
     decompressed |-> 0, rgba |-> 0]

\* p = malloc(...): a new block, held by pointer p; what p held before is
\* not released
Malloc(hp, p) ==
    [hp EXCEPT !.live = @ \cup {hp.next}, !.next = @ + 1, ![p] = hp.next]

\* free(p): p keeps its value; twice records the free of a block that is
\* not allocated
Free(hp, p) ==
    IF hp[p] = 0 THEN hp
    ELSE [hp EXCEPT !.live = @ \ {hp[p]}, !.twice = @ \/ hp[p] \notin hp.live]

\* png_free_chunk on the heap: free(chunk->data) and chunk->data = NULL
FreeChunkData(hp) == [Free(hp, "chunk") EXCEPT !.chunk = 0]

\* png_free_image on the heap: the three blocks, then memset
FreeImageData(hp) ==
    [Free(Free(Free(hp, "palette"), "transparency"), "image_data") EXCEPT
       !.palette = 0, !.transparency = 0, !.image_data = 0]

\* the heap as png_read_chunk leaves it on success: chunk->data is
\* allocated when the length is not 0
ChunkHeap(hp, c) == IF c.length > 0 THEN Malloc(hp, "chunk") ELSE [hp EXCEPT !.chunk = 0]

\* png_process_idat on the heap: malloc for the first IDAT (while
\* *image_data_size is 0), realloc of the same block after that
IdatHeap(hp, image_data_size) ==
    IF image_data_size = 0 THEN Malloc(hp, "image_data") ELSE hp

\* the heap that holds the blocks of a decoded image and nothing else
HeapOf(img) ==
    LET h1 == IF img.palette # <<>> THEN Malloc(NoHeap, "palette") ELSE NoHeap
        h2 == IF img.transparency # <<>> THEN Malloc(h1, "transparency") ELSE h1
    IN IF img.image_data # <<>> THEN Malloc(h2, "image_data") ELSE h2

\* no thread is inside png_crc32 and the table has not been built
NoThreads ==
    /\ crc_table_computed = 0
    /\ crc_filled = {}
    /\ thread = <<>>

\* ImageData g_imageData = { NULL, 0, 0, 1 }
NoImageData == [bitmap |-> 0, width |-> Zero32, height |-> Zero32, scale |-> 1]

\* the viewer is not part of the experiment
NoViewer ==
    /\ g_imageData = NoImageData
    /\ view = [loads |-> 0]

NoRaw == [len |-> Zero32, type |-> Zero32, data |-> <<>>, crc |-> Zero32, cut |-> "len"]

\* png_validate_signature
png_validate_signature(sig) ==
    IF Len(sig) # PNG_SIGNATURE_SIZE THEN 0
    ELSE IF sig = PNG_SIGNATURE THEN 1 ELSE 0

Init ==
    /\ pc = "start"
    /\ has_ihdr = 0 /\ has_idat = 0 /\ has_iend = 0
    /\ image = ZeroImage
    /\ raw = NoRaw
    /\ chunk = ZeroChunk
    /\ read = <<>>
    /\ trailing = -1
    /\ ret = -1
    /\ Unused
    /\ heap = HeapOf(image) /\ calls = <<>> /\ accesses = {}
    /\ NoThreads /\ NoViewer

\* ------------------------------------------------------------------------
\* png_read_file
\* ------------------------------------------------------------------------
\* fopen, png_validate_signature, memset and the three flags
OpenFile ==
    /\ pc = "start"
    /\ \E f \in SignatureInputs :
         IF f.open /\ png_validate_signature(f.sig) = 1
         THEN /\ pc' = "loop"
              /\ image' = ZeroImage
              /\ has_ihdr' = 0 /\ has_idat' = 0 /\ has_iend' = 0
              /\ ret' = ret
              /\ heap' = [heap EXCEPT !.palette = 0, !.transparency = 0, !.image_data = 0]
              /\ calls' = calls \o <<"fopen">>
         ELSE /\ pc' = "done"
              /\ ret' = 0
              /\ UNCHANGED <<image, has_ihdr, has_idat, has_iend, heap>>
              /\ calls' = calls \o (IF f.open THEN <<"fopen", "fclose">> ELSE <<"fopen">>)
    /\ UNCHANGED <<raw, chunk, read, trailing, accesses>>
    /\ UNCHANGED <<conv_vars, filter_vars, stream, thread_vars, viewer_vars>>

\* png_free_chunk leaves the other fields of the local chunk in place
FreedChunk(c) == [c EXCEPT !.data = <<>>]

\* the label error_cleanup: free the chunk and the image, close, return 0
ErrorCleanup(c) ==
    /\ chunk' = FreedChunk(c)
    /\ image' = ZeroImage
    /\ ret' = 0
    /\ pc' = "done"
    /\ heap' = FreeImageData(FreeChunkData(ChunkHeap(heap, c)))
    /\ calls' = calls \o <<"png_free_image", "fclose">>
    /\ UNCHANGED <<has_ihdr, has_idat, has_iend>>

\* the end of a loop iteration that did not fail: png_free_chunk
NextIteration(c) ==
    /\ chunk' = FreedChunk(c)
    /\ ret' = ret
    /\ pc' = "loop"
    /\ calls' = calls

\* case PNG_CHUNK_IHDR
CaseIHDR(c) ==
    IF has_ihdr = 1 THEN ErrorCleanup(c)
    ELSE IF png_parse_ihdr(c, image.header).ok = 0 THEN ErrorCleanup(c)
    ELSE /\ image' = [image EXCEPT !.header = png_parse_ihdr(c, image.header).ihdr]
         /\ has_ihdr' = 1
         /\ UNCHANGED <<has_idat, has_iend>>
         /\ heap' = FreeChunkData(ChunkHeap(heap, c))
         /\ NextIteration(c)

\* case PNG_CHUNK_PLTE
\* case PNG_CHUNK_PLTE without the test of the colour type
CasePLTEAnyColour(c) ==
    IF has_ihdr = 0
    THEN ErrorCleanup(c)
    ELSE LET r == png_parse_plte(c, image.palette, image.palette_size)
         IN IF r.ok = 0 THEN ErrorCleanup(c)
            ELSE /\ image' = [image EXCEPT !.palette = r.palette,
                                            !.palette_size = r.palette_size]
                 /\ UNCHANGED <<has_ihdr, has_idat, has_iend>>
                 /\ heap' = FreeChunkData(Malloc(ChunkHeap(heap, c), "palette"))
                 /\ NextIteration(c)

\* case PNG_CHUNK_PLTE
CasePLTE(c) ==
    IF has_ihdr = 0 \/ image.header.color_type = PNG_COLOR_TYPE_GRAY
       \/ image.header.color_type = PNG_COLOR_TYPE_GRAY_ALPHA
    THEN ErrorCleanup(c)
    ELSE LET r == png_parse_plte(c, image.palette, image.palette_size)
         IN IF r.ok = 0 THEN ErrorCleanup(c)
            ELSE /\ image' = [image EXCEPT !.palette = r.palette,
                                            !.palette_size = r.palette_size]
                 /\ UNCHANGED <<has_ihdr, has_idat, has_iend>>
                 /\ heap' = FreeChunkData(Malloc(ChunkHeap(heap, c), "palette"))
                 /\ NextIteration(c)

\* case PNG_CHUNK_tRNS
CasetRNS(c) ==
    IF has_ihdr = 0 \/ image.header.color_type = PNG_COLOR_TYPE_GRAY_ALPHA
       \/ image.header.color_type = PNG_COLOR_TYPE_RGBA
    THEN ErrorCleanup(c)
    ELSE LET r == png_parse_trns(c, image.header.color_type,
                                 image.transparency, image.transparency_size)
         IN IF r.ok = 0 THEN ErrorCleanup(c)
            ELSE /\ image' = [image EXCEPT !.transparency = r.transparency,
                                            !.transparency_size = r.transparency_size]
                 /\ UNCHANGED <<has_ihdr, has_idat, has_iend>>
                 /\ heap' = FreeChunkData(Malloc(ChunkHeap(heap, c), "transparency"))
                 /\ NextIteration(c)

\* case PNG_CHUNK_IDAT without the test that IHDR has been read
CaseIDATUnguarded(c) ==
    LET r == png_process_idat(c, image.image_data, image.image_data_size)
    IN /\ image' = [image EXCEPT !.image_data = r.image_data,
                                  !.image_data_size = r.image_data_size]
       /\ has_idat' = 1
       /\ UNCHANGED <<has_ihdr, has_iend>>
       /\ heap' = FreeChunkData(IdatHeap(ChunkHeap(heap, c), image.image_data_size))
       /\ NextIteration(c)

\* case PNG_CHUNK_IDAT
CaseIDAT(c) ==
    IF has_ihdr = 0 \/ has_iend = 1 THEN ErrorCleanup(c)
    ELSE LET r == png_process_idat(c, image.image_data, image.image_data_size)
         IN IF r.ok = 0 THEN ErrorCleanup(c)
            ELSE /\ image' = [image EXCEPT !.image_data = r.image_data,
                                            !.image_data_size = r.image_data_size]
                 /\ has_idat' = 1
                 /\ UNCHANGED <<has_ihdr, has_iend>>
                 /\ heap' = FreeChunkData(IdatHeap(ChunkHeap(heap, c), image.image_data_size))
                 /\ NextIteration(c)

\* case PNG_CHUNK_IEND
CaseIEND(c) ==
    IF has_ihdr = 0 \/ has_idat = 0 THEN ErrorCleanup(c)
    ELSE /\ has_iend' = 1
         /\ UNCHANGED <<image, has_ihdr, has_idat>>
         /\ heap' = FreeChunkData(ChunkHeap(heap, c))
         /\ NextIteration(c)

\* a default case that rejects every chunk type it does not know
CaseDefaultFatal(c) == ErrorCleanup(c)

\* default: every other chunk type is ignored
CaseDefault(c) ==
    /\ UNCHANGED <<image, has_ihdr, has_idat, has_iend>>
    /\ heap' = FreeChunkData(ChunkHeap(heap, c))
    /\ NextIteration(c)

KnownTypes == {U32(PNG_CHUNK_IHDR), U32(PNG_CHUNK_PLTE), U32(PNG_CHUNK_tRNS),
               U32(PNG_CHUNK_IDAT), U32(PNG_CHUNK_IEND)}

\* png_read_chunk(file, &chunk) in the loop condition: each of the chunks
\* a file may hold, with what png_read_chunk makes of it
ChunkReads == {[raw |-> r, ok |-> png_read_chunk(r).ok, chunk |-> png_read_chunk(r).chunk] :
                 r \in FileChunks}

\* the start of a loop iteration: has_iend is clear and png_read_chunk
\* succeeds on the octets o.raw the file offers next; the chunk enters the
\* history
ChunkRead(o) ==
    /\ pc = "loop"
    /\ has_iend = 0
    /\ Len(read) < MaxChunks
    /\ o.ok = 1
    /\ raw' = o.raw
    /\ read' = Append(read, <<o.chunk.type, o.chunk.length>>)
    /\ UNCHANGED <<trailing, accesses>>
    /\ UNCHANGED <<conv_vars, filter_vars, stream, thread_vars, viewer_vars>>

\* one iteration of the while loop for each case of the switch
ReadIHDR ==
    \E o \in ChunkReads :
      /\ ChunkRead(o)
      /\ o.chunk.type = U32(PNG_CHUNK_IHDR)
      /\ CaseIHDR(o.chunk)

ReadPLTE ==
    \E o \in ChunkReads :
      /\ ChunkRead(o)
      /\ o.chunk.type = U32(PNG_CHUNK_PLTE)
      /\ CasePLTE(o.chunk)

ReadtRNS ==
    \E o \in ChunkReads :
      /\ ChunkRead(o)
      /\ o.chunk.type = U32(PNG_CHUNK_tRNS)
      /\ CasetRNS(o.chunk)

ReadIDAT ==
    \E o \in ChunkReads :
      /\ ChunkRead(o)
      /\ o.chunk.type = U32(PNG_CHUNK_IDAT)
      /\ CaseIDAT(o.chunk)

ReadIEND ==
    \E o \in ChunkReads :
      /\ ChunkRead(o)
      /\ o.chunk.type = U32(PNG_CHUNK_IEND)
      /\ CaseIEND(o.chunk)

ReadOther ==
    \E o \in ChunkReads :
      /\ ChunkRead(o)
      /\ o.chunk.type \notin KnownTypes
      /\ CaseDefault(o.chunk)

\* png_free_image
png_free_image(img) == ZeroImage

\* after the loop: fclose, and stage 2 whatever the three flags are
AfterLoopUnchecked ==
    /\ image' = image
    /\ ret' = ret
    /\ pc' = "inflate"
    /\ heap' = heap
    /\ calls' = calls \o <<"fclose">>

\* after the loop: fclose, then the check of the three flags
AfterLoop ==
    IF has_ihdr = 0 \/ has_idat = 0 \/ has_iend = 0
    THEN /\ image' = png_free_image(image)
         /\ ret' = 0
         /\ pc' = "done"
         /\ heap' = FreeImageData(heap)
         /\ calls' = calls \o <<"fclose", "png_free_image">>
    ELSE /\ image' = image
         /\ ret' = ret
         /\ pc' = "inflate"
         /\ heap' = heap
         /\ calls' = calls \o <<"fclose">>

\* the loop condition fails because png_read_chunk returns 0
ReadFails ==
    /\ pc = "loop"
    /\ has_iend = 0
    /\ \E o \in ChunkReads :
         /\ o.ok = 0
         /\ raw' = o.raw
         /\ chunk' = o.chunk
    /\ AfterLoop
    /\ UNCHANGED <<has_ihdr, has_idat, has_iend, read, trailing, accesses>>
    /\ UNCHANGED <<conv_vars, filter_vars, stream, thread_vars, viewer_vars>>

\* the loop condition fails because has_iend is set: nothing more is read
\* and the file is closed with whatever follows the IEND chunk
LoopEnds ==
    /\ pc = "loop"
    /\ has_iend = 1
    /\ \E u \in TrailingInputs : trailing' = u
    /\ AfterLoop
    /\ UNCHANGED <<has_ihdr, has_idat, has_iend, raw, chunk, read, accesses>>
    /\ UNCHANGED <<conv_vars, filter_vars, stream, thread_vars, viewer_vars>>

\* png_decompress_data and the replacement of image_data by its output
Decompress ==
    /\ pc = "inflate"
    /\ \E o \in InflateOutcomes :
         IF o.ok = 0
         THEN /\ image' = png_free_image(image)
              /\ ret' = 0
              /\ pc' = "done"
              /\ heap' = FreeImageData(heap)
              /\ calls' = calls \o <<"png_decompress_data", "png_free_image">>
         ELSE /\ image' = [image EXCEPT !.image_data = o.out,
                                         !.image_data_size = Len(o.out)]
              /\ ret' = ret
              /\ pc' = "filter"
              /\ heap' = [Malloc(Free(heap, "image_data"), "decompressed") EXCEPT
                            !.image_data = heap.next, !.decompressed = 0]
              /\ calls' = calls \o <<"png_decompress_data">>
    /\ UNCHANGED <<has_ihdr, has_idat, has_iend, raw, chunk, read, trailing, accesses>>
    /\ UNCHANGED <<conv_vars, filter_vars, stream, thread_vars, viewer_vars>>

\* png_apply_filters and the return of png_read_file
ApplyFilters ==
    /\ pc = "filter"
    /\ \E g \in GarbageBytes :
         LET r == png_apply_filters(image.image_data, image.image_data_size, image.header, g)
         IN IF r.ok = 0
            THEN /\ image' = png_free_image(image)
                 /\ ret' = 0
                 /\ lines' = r.lines
                 /\ heap' = FreeImageData(heap)
                 /\ calls' = calls \o <<"png_apply_filters", "png_free_image">>
                 /\ accesses' = accesses \cup FilterAccesses(r, image.image_data_size, image.header)
            ELSE /\ image' = [image EXCEPT !.image_data = r.data]
                 /\ ret' = 1
                 /\ lines' = r.lines
                 /\ heap' = heap
                 /\ calls' = calls \o <<"png_apply_filters">>
                 /\ accesses' = accesses \cup FilterAccesses(r, image.image_data_size, image.header)
    /\ pc' = "done"
    /\ UNCHANGED <<has_ihdr, has_idat, has_iend, raw, chunk, read, trailing>>
    /\ UNCHANGED <<conv_vars, raster, stream, thread_vars, viewer_vars>>

\* 4 * width * height < 2^32: the pixel loop writes inside the buffer of
\* output_size octets
PixelsFit(h) ==
    /\ ~TopBit(h.width) /\ ~TopBit(h.height)
    /\ h.width # Zero32 /\ h.height # Zero32
    /\ ToNat(h.width) <= 1073741823 \div ToNat(h.height)

\* png_convert_to_rgba, called by DisplayImage after png_read_file returned
\* 1, up to the pixel loop: output_size, malloc, the switch on colour type
\* and the test of image_data_size
ConvertAlloc ==
    /\ pc = "done"
    /\ ret = 1
    /\ rgba_size' = output_size(image.header)
    /\ IF ConvertChecks(image) = 0
       THEN /\ rgba_data' = NoRgba
            /\ converted' = 0
            /\ pc' = "converted"
            /\ heap' = [Free(Malloc(heap, "rgba"), "rgba") EXCEPT !.rgba = 0]
       ELSE /\ rgba_data' = [ptr |-> 1, bytes |-> <<>>]
            /\ converted' = converted
            /\ pc' = "pixels"
            /\ heap' = Malloc(heap, "rgba")
    /\ calls' = calls \o <<"png_convert_to_rgba">>
    /\ UNCHANGED <<has_ihdr, has_idat, has_iend, image, raw, chunk, read, trailing, ret>>
    /\ UNCHANGED accesses
    /\ UNCHANGED <<filter_vars, stream, thread_vars, viewer_vars>>

\* the loops over y and x. When 4 * width * height does not fit 32 bits
\* the buffer is shorter than what the loops write: the writes past its end
\* are undefined behaviour, which ends the process or goes unnoticed.
ConvertPixels ==
    /\ pc = "pixels"
    /\ IF image.header.color_type = PNG_COLOR_TYPE_PALETTE /\ image.palette = <<>>
       THEN /\ rgba_data' = NoRgba
            /\ converted' = 0
            /\ pc' = "converted"
            /\ heap' = [Free(heap, "rgba") EXCEPT !.rgba = 0]
            /\ accesses' = accesses
       ELSE IF ~PixelsFit(image.header)
       THEN /\ rgba_data' = rgba_data
            /\ \/ converted' = converted /\ pc' = "crashed"
               \/ converted' = 1 /\ pc' = "converted"
            /\ UNCHANGED <<heap, accesses>>
       ELSE \E u \in GarbageBytes :
              LET r == ConvertRows(image, 0, <<>>, u)
              IN /\ rgba_data' = [ptr |-> r.ok, bytes |-> r.out]
                 /\ converted' = r.ok
                 /\ pc' = "converted"
                 /\ heap' = heap
                 /\ accesses' = accesses \cup ConvertReads(image)
    /\ UNCHANGED <<has_ihdr, has_idat, has_iend, image, raw, chunk, read, trailing, ret, calls>>
    /\ UNCHANGED <<rgba_size, filter_vars, stream, thread_vars, viewer_vars>>

Next ==
    \/ OpenFile
    \/ ReadIHDR
    \/ ReadPLTE
    \/ ReadtRNS
    \/ ReadIDAT
    \/ ReadIEND
    \/ ReadOther
    \/ ReadFails
    \/ LoopEnds
    \/ Decompress
    \/ ApplyFilters
    \/ ConvertAlloc
    \/ ConvertPixels

Spec == Init /\ [][Next]_vars

\* ------------------------------------------------------------------------
\* Unit experiment: png_read_chunk on one chunk (CRC engine)
\* ------------------------------------------------------------------------
\* the octets payloads are made of in this experiment
CrcBytes == {0, 1, 255}

RECURSIVE SeqsUpTo(_, _)
\* all sequences over S of length at most n
SeqsUpTo(S, n) ==
    IF n = 0 THEN {<<>>}
    ELSE SeqsUpTo(S, n - 1) \cup {Append(q, x) : q \in SeqsUpTo(S, n - 1), x \in S}

\* the words a file may store in the CRC field of a chunk (type, data):
\* the right one, two damaged ones, and the results of three wrong recipes
StoredCrcs(type, data) ==
    { Crc32OneShot(type \o data),
      Xor32(Crc32OneShot(type \o data), <<0, 0, 0, 1>>),
      Xor32(Crc32OneShot(type \o data), <<128, 0, 0, 0>>),
      Crc32OneShot(data),
      Crc32OneShot(data \o type),
      Xor32(Crc32OneShot(type \o data), <<255, 255, 255, 255>>) }

CrcInputs ==
    UNION { { [len |-> U32(Len(data)), type |-> type, data |-> data, crc |-> c, cut |-> "none"] :
                c \in StoredCrcs(type, data) } :
            type \in {TypeIHDR, TypeIDAT, TypeIEND, TypetEXt},
            data \in SeqsUpTo(CrcBytes, MaxPayload) }

InitCrc ==
    /\ pc = "crc"
    /\ raw \in CrcInputs
    /\ has_ihdr = 0 /\ has_idat = 0 /\ has_iend = 0
    /\ image = ZeroImage
    /\ chunk = ZeroChunk
    /\ read = <<>>
    /\ trailing = -1
    /\ ret = -1
    /\ Unused
    /\ heap = HeapOf(image) /\ calls = <<>> /\ accesses = {}
    /\ NoThreads /\ NoViewer

\* one call png_read_chunk(file, &chunk)
CallReadChunk ==
    /\ pc = "crc"
    /\ chunk' = png_read_chunk(raw).chunk
    /\ ret' = png_read_chunk(raw).ok
    /\ pc' = "crc_done"
    /\ heap' = IF png_read_chunk(raw).ok = 1
               THEN ChunkHeap(heap, png_read_chunk(raw).chunk) ELSE heap
    /\ UNCHANGED <<has_ihdr, has_idat, has_iend, image, raw, read, trailing, calls, accesses>>
    /\ UNCHANGED <<conv_vars, filter_vars, stream, thread_vars, viewer_vars>>

NextCrc == CallReadChunk

SpecCrc == InitCrc /\ [][NextCrc]_vars

\* ------------------------------------------------------------------------
\* Unit experiment: png_parse_ihdr on one chunk
\* ------------------------------------------------------------------------
\* width and height fields: 0, 1, 2^31 - 1, 2^31 and 2^32 - 1
DimensionInputs == {<<0, 0, 0, 0>>, <<0, 0, 0, 1>>, <<127, 255, 255, 255>>,
                    <<128, 0, 0, 0>>, <<255, 255, 255, 255>>}
BitDepthInputs == {0, 1, 2, 3, 4, 8, 16, 32}
ColorTypeInputs == 0..7
MethodInputs == {0, 1}
InterlaceInputs == {0, 1, 2}

\* IHDR chunks of length 13, and two of the wrong length with legal content
IhdrInputs ==
    { [length |-> 13, type |-> TypeIHDR, crc |-> Zero32,
       data |-> w \o <<0, 0, 0, 1>> \o <<bd, ct, cm, fm, il>>] :
         w \in DimensionInputs, bd \in BitDepthInputs, ct \in ColorTypeInputs,
         cm \in MethodInputs, fm \in MethodInputs, il \in InterlaceInputs }
    \cup
    { [length |-> 13, type |-> TypeIHDR, crc |-> Zero32,
       data |-> <<0, 0, 0, 1>> \o h \o <<bd, ct, 0, 0, 0>>] :
         h \in DimensionInputs, bd \in BitDepthInputs, ct \in ColorTypeInputs }
    \cup
    { [length |-> 12, type |-> TypeIHDR, crc |-> Zero32,
       data |-> <<0, 0, 0, 1, 0, 0, 0, 1, 8, 0, 0, 0>>],
      [length |-> 14, type |-> TypeIHDR, crc |-> Zero32,
       data |-> <<0, 0, 0, 1, 0, 0, 0, 1, 8, 0, 0, 0, 0, 0>>] }

InitIhdr ==
    /\ pc = "ihdr"
    /\ chunk \in IhdrInputs
    /\ has_ihdr = 0 /\ has_idat = 0 /\ has_iend = 0
    /\ image = ZeroImage
    /\ raw = NoRaw
    /\ read = <<>>
    /\ trailing = -1
    /\ ret = -1
    /\ Unused
    /\ heap = HeapOf(image) /\ calls = <<>> /\ accesses = {}
    /\ NoThreads /\ NoViewer

\* one call png_parse_ihdr(&chunk, &image->header)
CallParseIhdr ==
    /\ pc = "ihdr"
    /\ image' = [image EXCEPT !.header = png_parse_ihdr(chunk, image.header).ihdr]
    /\ ret' = png_parse_ihdr(chunk, image.header).ok
    /\ pc' = "ihdr_done"
    /\ UNCHANGED <<has_ihdr, has_idat, has_iend, raw, chunk, read, trailing, mem_vars>>
    /\ UNCHANGED <<conv_vars, filter_vars, stream, thread_vars, viewer_vars>>

NextIhdr == CallParseIhdr

SpecIhdr == InitIhdr /\ [][NextIhdr]_vars

\* ------------------------------------------------------------------------
\* Unit experiment: the inflate loop of png_decompress_data
\* ------------------------------------------------------------------------
\* uint32_t buffer_size = 4096
INITIAL_BUFFER_SIZE == 4096

\* the number of octets a compressed stream delivers before it ends, breaks
\* off or turns out corrupt
InflatedSizes ==
    {0, 1, 100, INITIAL_BUFFER_SIZE - 1, INITIAL_BUFFER_SIZE, INITIAL_BUFFER_SIZE + 1,
     2 * INITIAL_BUFFER_SIZE, 2 * INITIAL_BUFFER_SIZE + 1, 3 * INITIAL_BUFFER_SIZE,
     MaxInflated}

\* the compressed input: a complete zlib stream, one with a corrupt block,
\* one cut short (avail_in = 0 when IDAT held no octet at all), and a
\* z_stream the library finds inconsistent
StreamInputs ==
    { [kind |-> k, total |-> n, avail_in |-> a] :
        k \in {"complete", "corrupt", "truncated", "inconsistent"},
        n \in InflatedSizes, a \in {0, 1} }
    \ { s \in [kind : {"complete", "corrupt", "truncated", "inconsistent"},
               total : InflatedSizes, avail_in : {0, 1}] :
          s.avail_in = 0 /\ (s.kind # "truncated" \/ s.total # 0) }

\* inflate(&stream, Z_NO_FLUSH) of zlib, by its documented contract, on a
\* stream that has delivered total_size octets into avail_out free octets:
\* the return code, the octets written and the input left
inflate(st, avail_out) ==
    LET remaining == st.total - st.total_size
    IN IF st.kind = "inconsistent"
       THEN [code |-> "Z_STREAM_ERROR", written |-> 0, avail_in |-> st.avail_in]
       ELSE IF st.ret = "Z_DATA_ERROR"
       THEN [code |-> "Z_DATA_ERROR", written |-> 0, avail_in |-> st.avail_in]
       ELSE IF remaining > avail_out
       THEN [code |-> "Z_OK", written |-> avail_out, avail_in |-> st.avail_in]
       ELSE IF st.kind = "complete"
       THEN [code |-> "Z_STREAM_END", written |-> remaining, avail_in |-> 0]
       ELSE IF st.kind = "corrupt"
       THEN [code |-> "Z_DATA_ERROR", written |-> remaining, avail_in |-> st.avail_in]
       ELSE IF st.avail_in > 0
       THEN [code |-> "Z_OK", written |-> remaining, avail_in |-> 0]
       ELSE [code |-> "Z_BUF_ERROR", written |-> 0, avail_in |-> 0]

\* png_decompress_data after inflateInit and malloc(buffer_size)
InitInflate ==
    /\ pc = "inflate_loop"
    /\ \E s \in StreamInputs :
         stream = [kind |-> s.kind, total |-> s.total, avail_in |-> s.avail_in,
                   buffer_size |-> INITIAL_BUFFER_SIZE, total_size |-> 0, ret |-> "none"]
    /\ has_ihdr = 1 /\ has_idat = 1 /\ has_iend = 1
    /\ image = ZeroImage
    /\ raw = NoRaw
    /\ chunk = ZeroChunk
    /\ read = <<>>
    /\ trailing = -1
    /\ ret = -1
    /\ rgba_data = NoRgba /\ rgba_size = Zero32 /\ converted = -1
    /\ raster = NoRaster /\ lines = <<>>
    /\ heap = Malloc(Malloc(NoHeap, "image_data"), "decompressed")
    /\ calls = <<"png_decompress_data">> /\ accesses = {}
    /\ NoThreads /\ NoViewer

\* one pass through the body of the do-while loop
InflateIteration ==
    /\ pc = "inflate_loop"
    /\ LET avail_out == stream.buffer_size - stream.total_size
           r == inflate(stream, avail_out)
       IN IF r.code = "Z_STREAM_ERROR"
          THEN /\ stream' = [stream EXCEPT !.ret = r.code]
               /\ ret' = 0
               /\ pc' = "inflate_done"
               /\ heap' = Free(heap, "decompressed")
          ELSE /\ stream' = [stream EXCEPT
                               !.ret = r.code,
                               !.avail_in = r.avail_in,
                               !.total_size = stream.buffer_size - (avail_out - r.written),
                               !.buffer_size = IF avail_out - r.written = 0
                                               THEN 2 * stream.buffer_size
                                               ELSE stream.buffer_size]
               /\ ret' = ret
               /\ pc' = IF r.code # "Z_STREAM_END" THEN "inflate_loop" ELSE "inflate_end"
               /\ heap' = heap
    /\ UNCHANGED <<has_ihdr, has_idat, has_iend, image, raw, chunk, read, trailing, calls, accesses>>
    /\ UNCHANGED <<conv_vars, filter_vars, thread_vars, viewer_vars>>

\* after the loop: *decompressed_size = total_size, inflateEnd, realloc and
\* return ret == Z_STREAM_END ? 1 : 0
InflateReturn ==
    /\ pc = "inflate_end"
    /\ image' = [image EXCEPT !.image_data_size = stream.total_size]
    /\ ret' = IF stream.ret = "Z_STREAM_END" THEN 1 ELSE 0
    /\ pc' = "inflate_done"
    /\ UNCHANGED <<has_ihdr, has_idat, has_iend, raw, chunk, read, trailing, mem_vars>>
    /\ UNCHANGED <<conv_vars, filter_vars, stream, thread_vars, viewer_vars>>

NextInflate ==
    \/ InflateIteration
    \/ InflateReturn

SpecInflate == InitInflate /\ [][NextInflate]_vars

\* ------------------------------------------------------------------------
\* Unit experiment: png_apply_filters on the filtered form of a raster
\* ------------------------------------------------------------------------
\* the octets rasters are made of, the widths and heights of the images
FilterBytes == {0, 130, 255}
FilterWidths == {1, 2, 3, 9}
FilterHeights == {1, 2}
\* filter-type bytes: the five legal ones and an illegal one
FilterTypes == 0..5

\* samples per pixel of a colour type
Channels(ct) ==
    CASE ct = PNG_COLOR_TYPE_GRAY -> 1
      [] ct = PNG_COLOR_TYPE_RGB -> 3
      [] ct = PNG_COLOR_TYPE_PALETTE -> 1
      [] ct = PNG_COLOR_TYPE_GRAY_ALPHA -> 2
      [] ct = PNG_COLOR_TYPE_RGBA -> 4
      [] OTHER -> 0

\* octets of one scanline without its filter byte:
\* ceil(width * channels * bit_depth / 8), for a width below 2^31
ScanlineStride(h) == (ToNat(h.width) * Channels(h.color_type) * h.bit_depth + 7) \div 8

\* the distance to the left neighbour: max(1, ceil(channels * bit_depth / 8))
RefBpp(h) ==
    LET n == (Channels(h.color_type) * h.bit_depth + 7) \div 8
    IN IF n < 1 THEN 1 ELSE n

\* the headers png_parse_ihdr accepts whose raster has at most MaxRaster octets
FilterHeaders ==
    { h \in [width : {U32(w) : w \in FilterWidths}, height : {U32(n) : n \in FilterHeights},
             bit_depth : {1, 2, 4, 8, 16}, color_type : {0, 2, 3, 4, 6},
             compression_method : {0}, filter_method : {0}, interlace_method : {0}] :
        /\ IhdrChecks(h)
        /\ ToNat(h.height) * ScanlineStride(h) <= MaxRaster }

\* the predictor of filter type t by the PNG specification
RefPredictor(t, a, b, c) ==
    CASE t = 1 -> a
      [] t = 2 -> b
      [] t = 3 -> (a + b) \div 2
      [] t = 4 -> (LET p == a + b - c
                       pa == IF p >= a THEN p - a ELSE a - p
                       pb == IF p >= b THEN p - b ELSE b - p
                       pcc == IF p >= c THEN p - c ELSE c - p
                   IN IF pa <= pb /\ pa <= pcc THEN a ELSE IF pb <= pcc THEN b ELSE c)
      [] OTHER -> 0

\* octet x of row y (both from 0) of a raster with rows of stride octets;
\* 0 outside the raster
RasterAt(pixels, stride, y, x) ==
    IF y < 0 \/ x < 0 THEN 0 ELSE pixels[y * stride + x + 1]

\* the forward PNG filter: each scanline becomes its filter-type byte
\* followed by raw - predictor(raw neighbours) modulo 256
ForwardFilter(pixels, types, stride, bpp) ==
    [i \in 1..(Len(types) * (stride + 1)) |->
       LET y == (i - 1) \div (stride + 1)
           x == ((i - 1) % (stride + 1)) - 1
       IN IF x < 0 THEN types[y + 1]
          ELSE (256 + RasterAt(pixels, stride, y, x)
                    - RefPredictor(types[y + 1],
                                   RasterAt(pixels, stride, y, x - bpp),
                                   RasterAt(pixels, stride, y - 1, x),
                                   RasterAt(pixels, stride, y - 1, x - bpp))) % 256]

\* the inputs: a header, a raster of its size and one filter type per row
FilterInputs ==
    UNION { [header : {h},
             pixels : [1..(ToNat(h.height) * ScanlineStride(h)) -> FilterBytes],
             types : [1..ToNat(h.height) -> FilterTypes]] : h \in FilterHeaders }

\* the state of png_read_file after png_decompress_data delivered the
\* filtered form of the raster
InitFilter ==
    /\ pc = "filter"
    /\ raster \in FilterInputs
    /\ image = [ZeroImage EXCEPT
                  !.header = raster.header,
                  !.image_data = ForwardFilter(raster.pixels, raster.types,
                                               ScanlineStride(raster.header),
                                               RefBpp(raster.header)),
                  !.image_data_size = ToNat(raster.header.height)
                                      * (ScanlineStride(raster.header) + 1)]
    /\ has_ihdr = 1 /\ has_idat = 1 /\ has_iend = 1
    /\ raw = NoRaw
    /\ chunk = ZeroChunk
    /\ read = <<>>
    /\ trailing = 0
    /\ ret = -1
    /\ rgba_data = NoRgba /\ rgba_size = Zero32 /\ converted = -1
    /\ lines = <<>>
    /\ stream = NoStream
    /\ heap = HeapOf(image) /\ calls = <<>> /\ accesses = {}
    /\ NoThreads /\ NoViewer

NextFilter == ApplyFilters

SpecFilter == InitFilter /\ [][NextFilter]_vars

\* ------------------------------------------------------------------------
\* Unit experiment: png_convert_to_rgba on one decoded image
\* ------------------------------------------------------------------------
\* the octets of the raw pixel rows, and the sides of the small images
ConvertBytes == {0, 1, 130}
ConvertSides == {1, 2}

\* image->palette: NULL, one entry or two entries
PaletteInputs ==
    { <<>>,
      <<[red |-> 10, green |-> 20, blue |-> 30]>>,
      <<[red |-> 10, green |-> 20, blue |-> 30], [red |-> 40, green |-> 50, blue |-> 60]>> }

\* image->transparency as png_parse_trns leaves it for a colour type: NULL,
\* or the payload of an accepted tRNS chunk
TrnsInputs(ct) ==
    CASE ct = PNG_COLOR_TYPE_GRAY -> {<<>>, <<0, 130>>, <<130, 0>>}
      [] ct = PNG_COLOR_TYPE_RGB -> {<<>>, <<0, 130, 0, 1, 0, 0>>, <<130, 1, 0, 0, 0, 0>>}
      [] ct = PNG_COLOR_TYPE_PALETTE -> {<<>>, <<7>>, <<7, 9>>}
      [] OTHER -> {<<>>}

\* the accepted headers with small sides whose pixel rows take at most
\* MaxSource octets
ConvertHeaders ==
    { h \in [width : {U32(w) : w \in ConvertSides}, height : {U32(n) : n \in ConvertSides},
             bit_depth : {1, 2, 4, 8, 16}, color_type : {0, 2, 3, 4, 6},
             compression_method : {0}, filter_method : {0}, interlace_method : {0}] :
        /\ IhdrChecks(h)
        /\ ToNat(h.height) * ScanlineStride(h) <= MaxSource }

\* a decoded image as png_read_file returns it: the packed rows followed by
\* the height octets the filter bytes took
SmallImages ==
    UNION { [header : {h},
             palette : (IF h.color_type = PNG_COLOR_TYPE_PALETTE THEN PaletteInputs ELSE {<<>>}),
             transparency : TrnsInputs(h.color_type),
             pixels : [1..(ToNat(h.height) * ScanlineStride(h)) -> ConvertBytes]] :
            h \in ConvertHeaders }

\* two accepted headers with 2^30 pixels or more, whose inflated data is too
\* long to list: the octets are zero. 1-bit GRAY of 2^30 + 1 by 1 pixels
\* (2^27 + 2 octets inflated) and 8-bit GRAY of 2 by 2^29 pixels (3 * 2^29)
LargeImages ==
    { [ZeroImage EXCEPT
         !.header = [ZeroHeader EXCEPT !.width = <<64, 0, 0, 1>>, !.height = U32(1),
                                       !.bit_depth = 1,
                                       !.color_type = PNG_COLOR_TYPE_GRAY],
         !.image_data = <<0>>,
         !.image_data_size = 134217730],
      [ZeroImage EXCEPT
         !.header = [ZeroHeader EXCEPT !.width = U32(2), !.height = <<32, 0, 0, 0>>,
                                       !.bit_depth = 8,
                                       !.color_type = PNG_COLOR_TYPE_GRAY],
         !.image_data = <<0>>,
         !.image_data_size = 1610612736] }

ConvertInputs ==
    { [ZeroImage EXCEPT
         !.header = s.header,
         !.palette = s.palette,
         !.palette_size = Len(s.palette),
         !.transparency = s.transparency,
         !.transparency_size = Len(s.transparency),
         !.image_data = s.pixels \o [i \in 1..ToNat(s.header.height) |-> 170],
         !.image_data_size = Len(s.pixels) + ToNat(s.header.height)] : s \in SmallImages }
    \cup LargeImages

\* DisplayImage after png_read_file returned 1
InitConvert ==
    /\ pc = "done"
    /\ ret = 1
    /\ image \in ConvertInputs
    /\ has_ihdr = 1 /\ has_idat = 1 /\ has_iend = 1
    /\ raw = NoRaw
    /\ chunk = ZeroChunk
    /\ read = <<>>
    /\ trailing = 0
    /\ Unused
    /\ heap = HeapOf(image) /\ calls = <<>> /\ accesses = {}
    /\ NoThreads /\ NoViewer

NextConvert ==
    \/ ConvertAlloc
    \/ ConvertPixels

SpecConvert == InitConvert /\ [][NextConvert]_vars

\* ------------------------------------------------------------------------
\* Unit experiment: the first calls of png_crc32 by two threads
\* ------------------------------------------------------------------------
Threads == {1, 2}

\* the entries of crc_table are 0 .. MaxTable - 1 (256 in the source)
TableIndices == 0..(MaxTable - 1)

\* two threads enter png_crc32 while the static table is still unbuilt
InitThreads ==
    /\ pc = "threads"
    /\ crc_table_computed = 0
    /\ crc_filled = {}
    /\ thread = [t \in Threads |->
                   [pc |-> "test", i |-> 0, built |-> FALSE, stored |-> FALSE,
                    index |-> -1, unwritten |-> FALSE]]
    /\ has_ihdr = 0 /\ has_idat = 0 /\ has_iend = 0
    /\ image = ZeroImage
    /\ raw = NoRaw
    /\ chunk = ZeroChunk
    /\ read = <<>>
    /\ trailing = -1
    /\ ret = -1
    /\ Unused
    /\ heap = NoHeap /\ calls = <<>> /\ accesses = {}
    /\ NoViewer

\* what a step of a thread inside png_crc32 leaves alone
OutsideCrc ==
    UNCHANGED <<pc, has_ihdr, has_idat, has_iend, image, raw, chunk, read, trailing, ret,
                conv_vars, filter_vars, stream, mem_vars, viewer_vars>>

\* if (!crc_table_computed)
TestComputed(t) ==
    /\ thread[t].pc = "test"
    /\ thread' = [thread EXCEPT ![t].pc = IF crc_table_computed = 0 THEN "build" ELSE "use"]
    /\ UNCHANGED <<crc_table_computed, crc_filled>>
    /\ OutsideCrc

\* one pass of the loop over i: crc_table[i] = c
BuildEntry(t) ==
    /\ thread[t].pc = "build"
    /\ thread[t].i < MaxTable
    /\ crc_filled' = crc_filled \cup {thread[t].i}
    /\ thread' = [thread EXCEPT ![t].i = @ + 1, ![t].built = TRUE]
    /\ UNCHANGED crc_table_computed
    /\ OutsideCrc

\* crc_table_computed = 1 after the loop
SetComputed(t) ==
    /\ thread[t].pc = "build"
    /\ thread[t].i = MaxTable
    /\ crc_table_computed' = 1
    /\ thread' = [thread EXCEPT ![t].pc = "use", ![t].stored = TRUE]
    /\ UNCHANGED crc_filled
    /\ OutsideCrc

\* the store crc_table_computed = 1 reaches the other thread before the
\* stores to crc_table that precede it in the program: nothing orders the
\* unsynchronised stores to the two static objects
SetComputedEarly(t) ==
    /\ thread[t].pc = "build"
    /\ thread[t].built
    /\ thread[t].i < MaxTable
    /\ ~thread[t].stored
    /\ crc_table_computed' = 1
    /\ thread' = [thread EXCEPT ![t].stored = TRUE]
    /\ UNCHANGED crc_filled
    /\ OutsideCrc

\* crc_table[(crc ^ buf[i]) & 0xFF] for the first octet of the buffer
ReadEntry(t) ==
    /\ thread[t].pc = "use"
    /\ \E k \in TableIndices :
         thread' = [thread EXCEPT ![t].pc = "returned", ![t].index = k,
                                  ![t].unwritten = k \notin crc_filled]
    /\ UNCHANGED <<crc_table_computed, crc_filled>>
    /\ OutsideCrc

NextThreads ==
    \/ \E t \in Threads : TestComputed(t)
    \/ \E t \in Threads : BuildEntry(t)
    \/ \E t \in Threads : SetComputed(t)
    \/ \E t \in Threads : SetComputedEarly(t)
    \/ \E t \in Threads : ReadEntry(t)

SpecThreads == InitThreads /\ [][NextThreads]_vars

\* ------------------------------------------------------------------------
\* The viewer: DisplayImage calls on a sequence of files
\* ------------------------------------------------------------------------
\* what png_read_file makes of the file chosen in the dialog: a failure, or
\* one of these decoded images (8- and 16-bit GRAY, PALETTE with and
\* without a palette, one pixel wide, and the two images of 2^30 pixels
\* or more)
ViewerFiles ==
    { [ok |-> 0, image |-> ZeroImage] }
    \cup { [ok |-> 1, image |-> i] :
             i \in { c \in ConvertInputs :
                       \/ c \in LargeImages
                       \/ /\ c.header.width = U32(1)
                          /\ c.header.color_type \in {PNG_COLOR_TYPE_GRAY, PNG_COLOR_TYPE_PALETTE}
                          /\ c.header.bit_depth \in {8, 16}
                          /\ c.transparency = <<>>
                          /\ \A k \in 1..Len(c.image_data) : c.image_data[k] \in {0, 170} } }

\* the window has been created and no file has been opened yet
InitViewer ==
    /\ pc = "idle"
    /\ g_imageData = NoImageData
    /\ view = [loads |-> 0, entry |-> NoImageData, result |-> "none"]
    /\ has_ihdr = 0 /\ has_idat = 0 /\ has_iend = 0
    /\ image = ZeroImage
    /\ raw = NoRaw
    /\ chunk = ZeroChunk
    /\ read = <<>>
    /\ trailing = -1
    /\ ret = -1
    /\ Unused
    /\ heap = NoHeap /\ calls = <<>> /\ accesses = {}
    /\ NoThreads

\* what the steps of DisplayImage leave alone
OutsideViewer ==
    UNCHANGED <<has_ihdr, has_idat, has_iend, raw, chunk, read, trailing,
                filter_vars, stream, thread_vars>>

\* CleanupImage(&g_imageData)
CleanupImage(d) == [bitmap |-> 0, width |-> Zero32, height |-> Zero32, scale |-> 1]

\* DisplayImage up to the test of png_read_file: a failure shows the
\* message box and returns
DisplayImageRead ==
    /\ pc = "idle"
    /\ view.loads < MaxLoads
    /\ \E f \in ViewerFiles :
         /\ image' = f.image
         /\ ret' = f.ok
         /\ heap' = HeapOf(f.image)
         /\ pc' = IF f.ok = 0 THEN "idle" ELSE "done"
         /\ view' = [loads |-> view.loads + 1, entry |-> g_imageData,
                     result |-> IF f.ok = 0 THEN "read_failed" ELSE "none"]
    /\ rgba_data' = NoRgba /\ rgba_size' = Zero32 /\ converted' = -1
    /\ calls' = <<"png_read_file">>
    /\ accesses' = {}
    /\ UNCHANGED g_imageData
    /\ OutsideViewer

\* png_convert_to_rgba returned 0 and CleanupImage is called all the same
DisplayImageConvertFailedCleans ==
    /\ pc = "converted"
    /\ converted = 0
    /\ image' = png_free_image(image)
    /\ heap' = FreeImageData(heap)
    /\ calls' = calls \o <<"png_free_image">>
    /\ view' = [view EXCEPT !.result = "convert_failed"]
    /\ pc' = "idle"
    /\ g_imageData' = CleanupImage(g_imageData)
    /\ UNCHANGED <<ret, conv_vars, accesses>>
    /\ OutsideViewer

\* png_convert_to_rgba returned 0: png_free_image, message box, return
DisplayImageConvertFailed ==
    /\ pc = "converted"
    /\ converted = 0
    /\ image' = png_free_image(image)
    /\ heap' = FreeImageData(heap)
    /\ calls' = calls \o <<"png_free_image">>
    /\ view' = [view EXCEPT !.result = "convert_failed"]
    /\ pc' = "idle"
    /\ UNCHANGED <<ret, conv_vars, accesses, g_imageData>>
    /\ OutsideViewer

\* png_convert_to_rgba returned 1: CleanupImage, CreateDIBSection (NULL or a
\* new handle), the copy of the pixels, width and height, and the release
\* of the image and of rgba_data
DisplayImageShow ==
    /\ pc = "converted"
    /\ converted = 1
    /\ \E bitmap \in {0, view.loads} :
         IF bitmap = 0
         THEN /\ g_imageData' = [CleanupImage(g_imageData) EXCEPT !.bitmap = 0]
              /\ view' = [view EXCEPT !.result = "bitmap_failed"]
         ELSE /\ g_imageData' = [CleanupImage(g_imageData) EXCEPT
                                   !.bitmap = bitmap,
                                   !.width = image.header.width,
                                   !.height = image.header.height]
              /\ view' = [view EXCEPT !.result = "shown"]
    /\ image' = png_free_image(image)
    /\ heap' = [Free(FreeImageData(heap), "rgba") EXCEPT !.rgba = 0]
    /\ calls' = calls \o <<"CleanupImage", "CreateDIBSection", "png_free_image">>
    /\ pc' = "idle"
    /\ UNCHANGED <<ret, conv_vars, accesses>>
    /\ OutsideViewer

\* WM_DESTROY: CleanupImage and PostQuitMessage
WindowDestroy ==
    /\ pc = "idle"
    /\ g_imageData' = CleanupImage(g_imageData)
    /\ calls' = <<"WM_DESTROY", "CleanupImage">>
    /\ pc' = "quit"
    /\ UNCHANGED <<image, ret, conv_vars, heap, accesses, view>>
    /\ OutsideViewer

NextViewer ==
    \/ DisplayImageRead
    \/ ConvertAlloc
    \/ ConvertPixels
    \/ DisplayImageConvertFailed
    \/ DisplayImageShow
    \/ WindowDestroy

SpecViewer == InitViewer /\ [][NextViewer]_vars

\* ------------------------------------------------------------------------
\* Unit experiment: streams that differ in the interlace method only
\* ------------------------------------------------------------------------
\* the IHDR chunk with the fields of h and a matching CRC, as the file holds it
IhdrChunkOf(h) ==
    GoodChunk(TypeIHDR, h.width \o h.height \o <<h.bit_depth, h.color_type, h.compression_method,
                                                 h.filter_method, h.interlace_method>>)

\* png_parse_ihdr on what png_read_chunk returned (c), as case PNG_CHUNK_IHDR
\* of png_read_file calls it: [ok, ihdr]
ParsedIhdr(c) ==
    IF c.ok = 0 THEN [ok |-> 0, ihdr |-> ZeroHeader]
    ELSE png_parse_ihdr(c.chunk, ZeroHeader)

\* the octets of the rasters, the sides of the images and the filter types
\* of the rows
StreamBytes == {0, 130}
StreamSides == {1, 2}
StreamTypes == {0, 4, 5}

\* headers with either interlace method whose raster has at most MaxRaster
\* octets
StreamHeaders ==
    { h \in [width : {U32(w) : w \in StreamSides}, height : {U32(n) : n \in StreamSides},
             bit_depth : {1, 2, 4, 8, 16}, color_type : {0, 2, 3, 4, 6},
             compression_method : {0}, filter_method : {0},
             interlace_method : {PNG_INTERLACE_METHOD_NONE, PNG_INTERLACE_METHOD_ADAM7}] :
        /\ ColorDepthOk(h.color_type, h.bit_depth)
        /\ ToNat(h.height) * ScanlineStride(h) <= MaxRaster }

\* h with the other interlace method
OtherInterlace(h) ==
    [h EXCEPT !.interlace_method = IF @ = PNG_INTERLACE_METHOD_NONE
                                   THEN PNG_INTERLACE_METHOD_ADAM7
                                   ELSE PNG_INTERLACE_METHOD_NONE]

\* what reading and parsing the IHDR chunk gives, for every header (out) and
\* for the header that differs from it in the interlace method only (twin)
StreamParses ==
    { [out |-> ParsedIhdr(r.out), twin |-> ParsedIhdr(r.twin)] :
        r \in { [out |-> png_read_chunk(c.out), twin |-> png_read_chunk(c.twin)] :
                  c \in { [out |-> IhdrChunkOf(h), twin |-> IhdrChunkOf(OtherInterlace(h))] :
                            h \in StreamHeaders } } }

\* a parsed header, the raster its IDAT data inflates to, the filter types
\* of the rows, and the result of parsing the twin stream's IHDR chunk
StreamInputsOf(p) ==
    [header : {p.out.ihdr},
     pixels : [1..(ToNat(p.out.ihdr.height) * ScanlineStride(p.out.ihdr)) -> StreamBytes],
     types : [1..ToNat(p.out.ihdr.height) -> StreamTypes],
     twin : {p.twin}]

\* png_read_file after the chunk loop and png_decompress_data, for a stream
\* whose IHDR chunk was read and accepted
InitInterlace ==
    /\ pc = "filter"
    /\ \E p \in StreamParses :
         /\ p.out.ok = 1
         /\ \E r \in StreamInputsOf(p) : raster = r
    /\ image = [ZeroImage EXCEPT
                  !.header = raster.header,
                  !.palette = IF raster.header.color_type = PNG_COLOR_TYPE_PALETTE
                              THEN <<[red |-> 10, green |-> 20, blue |-> 30]>> ELSE <<>>,
                  !.palette_size = IF raster.header.color_type = PNG_COLOR_TYPE_PALETTE
                                   THEN 1 ELSE 0,
                  !.image_data = ForwardFilter(raster.pixels, raster.types,
                                               ScanlineStride(raster.header),
                                               RefBpp(raster.header)),
                  !.image_data_size = ToNat(raster.header.height)
                                      * (ScanlineStride(raster.header) + 1)]
    /\ has_ihdr = 1 /\ has_idat = 1 /\ has_iend = 1
    /\ raw = NoRaw
    /\ chunk = ZeroChunk
    /\ read = <<>>
    /\ trailing = 0
    /\ ret = -1
    /\ rgba_data = NoRgba /\ rgba_size = Zero32 /\ converted = -1
    /\ lines = <<>>
    /\ stream = NoStream
    /\ heap = HeapOf(image) /\ calls = <<>> /\ accesses = {}
    /\ NoThreads /\ NoViewer

NextInterlace ==
    \/ ApplyFilters
    \/ ConvertAlloc
    \/ ConvertPixels

SpecInterlace == InitInterlace /\ [][NextInterlace]_vars

\* ------------------------------------------------------------------------
\* Properties
\* ------------------------------------------------------------------------
\* the type of the i-th chunk read, and its payload length
TypeAt(i) == read[i][1]
LengthAt(i) == read[i][2]
Positions == 1..Len(read)

IsIHDR(i) == TypeAt(i) = TypeIHDR
IsPLTE(i) == TypeAt(i) = TypePLTE
IsIDAT(i) == TypeAt(i) = TypeIDAT
IsIEND(i) == TypeAt(i) = TypeIEND
IstRNS(i) == TypeAt(i) = TypetRNS

\* a type that is none of IHDR, PLTE, IDAT, IEND, tRNS
UnknownType(t) == t \notin {TypeIHDR, TypePLTE, TypeIDAT, TypeIEND, TypetRNS}
\* the first type letter is uppercase: bit 0x20 of the first octet is clear
Critical(t) == (t[1] \div 32) % 2 = 0

\* png_read_file has returned 1
Succeeded == pc = "done" /\ ret = 1

\* C1: png_read_file succeeds only if all IDAT chunks form one contiguous
\* run: no chunk of another type is read between two IDAT chunks.
C1_IdatContiguous ==
    Succeeded =>
      ~ \E i, j, k \in Positions : i < j /\ j < k /\ IsIDAT(i) /\ ~IsIDAT(j) /\ IsIDAT(k)

\* C2: png_read_file succeeds only if no PLTE and no tRNS chunk is read
\* after an IDAT chunk.
C2_PlteTrnsBeforeIdat ==
    Succeeded =>
      ~ \E i, j \in Positions : i < j /\ IsIDAT(i) /\ (IsPLTE(j) \/ IstRNS(j))

\* C3: png_read_file succeeds only if the first chunk read is IHDR and
\* IHDR is read exactly once.
C3_IhdrFirstAndOnce ==
    Succeeded =>
      /\ Len(read) >= 1
      /\ IsIHDR(1)
      /\ \A i \in Positions : IsIHDR(i) => i = 1

\* C4: png_read_file never succeeds once a chunk of unknown type with an
\* uppercase first letter has been read.
C4_UnknownCriticalFatal ==
    Succeeded =>
      ~ \E i \in Positions : UnknownType(TypeAt(i)) /\ Critical(TypeAt(i))

\* C5: a loop iteration that reads a CRC-valid chunk of unknown type with a
\* lowercase first letter changes neither the header, palette, transparency
\* and IDAT bytes nor the three flags, and the decode goes on unfailed.
C5_AncillarySkipped ==
    [][ (pc = "loop" /\ Len(read') = Len(read) + 1
         /\ UnknownType(read'[Len(read')][1]) /\ ~Critical(read'[Len(read')][1]))
        => (/\ image' = image
            /\ has_ihdr' = has_ihdr /\ has_idat' = has_idat /\ has_iend' = has_iend
            /\ pc' = "loop"
            /\ ret' = -1) ]_vars

\* C5 witness: an unknown ancillary chunk has just been skipped while the
\* header, a palette and IDAT bytes were held
C5_Witness ==
    /\ pc = "loop"
    /\ Len(read) >= 4
    /\ TypeAt(Len(read)) = TypetEXt
    /\ has_ihdr = 1 /\ has_idat = 1 /\ has_iend = 0
    /\ image.palette_size = 1
    /\ image.image_data = <<120>>

\* C6: png_read_file returns 0 or 1, and it returns 1 only if IHDR, at
\* least one IDAT and IEND have been read in that order (so a sequence with
\* no IDAT before IEND, or one that ends before IEND, fails).
C6_SuccessNeedsIhdrIdatIend ==
    /\ pc = "done" => ret \in {0, 1}
    /\ Succeeded =>
         /\ has_ihdr = 1 /\ has_idat = 1 /\ has_iend = 1
         /\ \E i, j, k \in Positions : i < j /\ j < k /\ IsIHDR(i) /\ IsIDAT(j) /\ IsIEND(k)
         /\ \A i, j \in Positions : IsIHDR(i) /\ IsIDAT(j) => i < j
         /\ \A j, k \in Positions : IsIDAT(j) /\ IsIEND(k) => j < k

\* C6 witness: the shortest accepted stream, IHDR IDAT IEND, has been decoded
C6_Witness ==
    /\ Succeeded
    /\ Len(read) = 3
    /\ IsIHDR(1) /\ IsIDAT(2) /\ IsIEND(3)

\* C7: png_read_file succeeds only if every IEND chunk it read had an empty
\* payload.
C7_IendEmpty ==
    Succeeded => \A i \in Positions : IsIEND(i) => LengthAt(i) = 0

\* C8: png_read_file succeeds only if nothing follows the IEND chunk in the
\* file.
C8_IendLast ==
    Succeeded => trailing = 0

\* C9: png_read_chunk returns 1 only if the stored CRC is the CRC-32 of the
\* type octets followed by the payload, and the two chained calls of
\* png_crc32 give the one-shot CRC-32 of that concatenation.
C9_CrcOfTypeAndPayload ==
    pc = "crc_done" =>
      /\ ret = 1 => raw.crc = Crc32OneShot(raw.type \o raw.data)
      /\ png_crc32(png_crc32(Zero32, raw.type), raw.data) = Crc32OneShot(raw.type \o raw.data)

\* C9 witness: a chunk with a two-octet payload has been read and accepted;
\* its CRC is not the CRC of the type alone
C9_Witness ==
    /\ pc = "crc_done"
    /\ ret = 1
    /\ chunk.length = 2
    /\ chunk.data = <<255, 1>>
    /\ chunk.crc = png_crc32(png_crc32(Zero32, raw.type), raw.data)
    /\ chunk.crc # png_crc32(Zero32, raw.type)

\* the legal (colour type, bit depth) pairs
LegalPair(ct, bd) ==
    \/ ct = 0 /\ bd \in {1, 2, 4, 8, 16}
    \/ ct = 2 /\ bd \in {8, 16}
    \/ ct = 3 /\ bd \in {1, 2, 4, 8}
    \/ ct = 4 /\ bd \in {8, 16}
    \/ ct = 6 /\ bd \in {8, 16}

\* a legal width or height: from 1 to 2^31 - 1
LegalDimension(w) == w # <<0, 0, 0, 0>> /\ w[1] < 128

\* C10: png_parse_ihdr accepts a chunk if and only if its length is 13, the
\* compression and filter methods are 0, the interlace method is 0 or 1,
\* width and height are legal and (colour type, bit depth) is a legal pair.
C10_IhdrAcceptedIffLegal ==
    pc = "ihdr_done" =>
      (ret = 1 <=>
         /\ chunk.length = 13
         /\ chunk.data[11] = 0
         /\ chunk.data[12] = 0
         /\ chunk.data[13] \in {0, 1}
         /\ LegalDimension(SubSeq(chunk.data, 1, 4))
         /\ LegalDimension(SubSeq(chunk.data, 5, 8))
         /\ LegalPair(chunk.data[10], chunk.data[9]))

\* C11: png_parse_ihdr accepts no header whose width or height is zero or
\* has its top bit set: in every accepted header both lie in 1 .. 2^31 - 1.
C11_DimensionsIn31Bits ==
    (pc = "ihdr_done" /\ ret = 1) =>
      /\ LegalDimension(image.header.width)
      /\ LegalDimension(image.header.height)

\* a PLTE chunk is read in this step while the header read before it says
\* GRAY or GRAY_ALPHA
PlteReadForGray ==
    /\ pc = "loop"
    /\ Len(read') = Len(read) + 1
    /\ read'[Len(read')][1] = TypePLTE
    /\ has_ihdr = 1
    /\ image.header.color_type \in {PNG_COLOR_TYPE_GRAY, PNG_COLOR_TYPE_GRAY_ALPHA}

\* the image is of colour type PALETTE and no PLTE chunk has been read
PaletteMissing ==
    /\ has_ihdr = 1
    /\ image.header.color_type = PNG_COLOR_TYPE_PALETTE
    /\ \A i \in Positions : ~IsPLTE(i)

\* C12: a PLTE chunk read for a GRAY or GRAY_ALPHA image makes png_read_file
\* return 0 at once, and for a PALETTE image with no PLTE chunk in the
\* stream png_convert_to_rgba never returns 1 and hands out no buffer.
C12_PaletteMandatoryOrForbidden ==
    [][ /\ PlteReadForGray => (pc' = "done" /\ ret' = 0)
        /\ PaletteMissing' =>
              /\ converted' # 1
              /\ pc' = "converted" => (converted' = 0 /\ rgba_data' = NoRgba) ]_vars

\* C12 witness: png_read_file has accepted a PALETTE image without PLTE and
\* png_convert_to_rgba has then returned 0
C12_Witness ==
    /\ pc = "converted"
    /\ ret = 1
    /\ PaletteMissing
    /\ converted = 0
    /\ rgba_data = NoRgba

\* the size a tRNS chunk may have for colour type ct when the palette read
\* so far has n entries
TrnsSizeFits(ct, length, n) ==
    \/ ct = PNG_COLOR_TYPE_GRAY /\ length = 2
    \/ ct = PNG_COLOR_TYPE_RGB /\ length = 6
    \/ ct = PNG_COLOR_TYPE_PALETTE /\ 1 <= length /\ length <= n

\* C13: a loop iteration that reads a tRNS chunk goes on unfailed only if
\* the header has been read and the chunk is 2 octets long for GRAY, 6 for
\* RGB, or 1 .. palette_size for PALETTE (never for GRAY_ALPHA or RGBA).
C13_TrnsSizeFitsColourType ==
    [][ (/\ pc = "loop"
         /\ Len(read') = Len(read) + 1
         /\ read'[Len(read')][1] = TypetRNS
         /\ pc' = "loop")
        => (/\ has_ihdr = 1
            /\ TrnsSizeFits(image.header.color_type, read'[Len(read')][2],
                            image.palette_size)) ]_vars

\* C14: the inflate loop is left as soon as inflate returns a code other
\* than Z_OK (after Z_STREAM_END for the success return, after every other
\* code for the return of 0): the loop body is never entered again after
\* such a code, and a stream that is not complete gives the return value 0.
C14_InflateLoopExits ==
    /\ pc = "inflate_loop" => stream.ret \in {"none", "Z_OK"}
    /\ (pc = "inflate_done" /\ stream.kind # "complete") => ret = 0

\* C15: png_read_file succeeds only if the inflated data holds exactly
\* height * (1 + scanline_stride) octets, neither fewer nor more.
C15_InflatedSizeExact ==
    Succeeded =>
      image.image_data_size = ToNat(image.header.height) * (1 + ScanlineStride(image.header))

\* the filtered octets png_apply_filters was given in the filter experiment
FilteredInput ==
    ForwardFilter(raster.pixels, raster.types, ScanlineStride(raster.header),
                  RefBpp(raster.header))

RECURSIVE RefRecon(_, _, _, _, _)
\* the reconstructed octet x of scanline y (both from 0) of filtered data:
\* the filtered octet plus the predictor of the reconstructed neighbours,
\* modulo 256; 0 outside the raster
RefRecon(data, stride, bpp, y, x) ==
    IF y < 0 \/ x < 0 THEN 0
    ELSE (data[y * (stride + 1) + x + 2]
          + RefPredictor(data[y * (stride + 1) + 1],
                         RefRecon(data, stride, bpp, y, x - bpp),
                         RefRecon(data, stride, bpp, y - 1, x),
                         RefRecon(data, stride, bpp, y - 1, x - bpp))) % 256

\* rows and octets per row of the raster of the filter experiment
Rows == 0..(ToNat(raster.header.height) - 1)
Columns == 0..(ScanlineStride(raster.header) - 1)

\* C16: png_apply_filters fails when some row has a filter byte above 4;
\* otherwise it succeeds and current_line of every row holds, at every x,
\* the filtered octet plus the predictor of its filter type, modulo 256,
\* with the neighbours taken max(1, ceil(channels * bit_depth / 8)) back.
C16_InversePredictor ==
    pc = "done" =>
      IF \E y \in Rows : raster.types[y + 1] > 4
      THEN ret = 0
      ELSE /\ ret = 1
           /\ Len(lines) = ToNat(raster.header.height)
           /\ \A y \in Rows : \A x \in Columns :
                lines[y + 1][x + 1] = RefRecon(FilteredInput, ScanlineStride(raster.header),
                                               RefBpp(raster.header), y, x)

\* C16 witness: two rows of two octets, the first Average and the second
\* Paeth, have been reconstructed and both differ from their filtered form
C16_Witness ==
    /\ pc = "done"
    /\ ret = 1
    /\ raster.types = <<3, 4>>
    /\ ScanlineStride(raster.header) = 2
    /\ RefBpp(raster.header) = 1
    /\ lines[1][2] # FilteredInput[3]
    /\ lines[2][2] # FilteredInput[6]
    /\ lines[2][2] = raster.pixels[4]

ProductFits(w, h) ==
    /\ ~TopBit(w) /\ ~TopBit(h)
    /\ h # Zero32
    /\ ToNat(w) <= (2 ^ 30 - 1) \div ToNat(h)

\* the 32-bit word whose value is 4 * n, for n below 2^30
FourTimes(n) ==
    <<(n \div 4194304) % 256, (n \div 16384) % 256, (n \div 64) % 256, (n % 64) * 4>>

\* png_convert_to_rgba has passed every test that makes it return 0 before
\* the pixel loop, or has returned 1
ConvertNotFailed ==
    \/ pc = "pixels" /\ ~(image.header.color_type = PNG_COLOR_TYPE_PALETTE /\ image.palette = <<>>)
    \/ pc = "converted" /\ converted = 1

\* C19: when png_convert_to_rgba does not fail, output_size is the product
\* 4 * width * height itself (which therefore fits 32 bits), and on return
\* the buffer holds that many written octets.
C19_OutputSizeExact ==
    ConvertNotFailed =>
      /\ ProductFits(image.header.width, image.header.height)
      /\ rgba_size = FourTimes(ToNat(image.header.width) * ToNat(image.header.height))
      /\ pc = "converted" =>
            Len(rgba_data.bytes) = 4 * ToNat(image.header.width) * ToNat(image.header.height)

\* sample x of row y (both from 0) of packed pixel rows of depth bd <= 8
SampleAt(data, stride, bd, y, x) ==
    LET bit == x * bd
        octet == data[y * stride + (bit \div 8) + 1]
    IN (octet \div (2 ^ ((8 - bd) - (bit % 8)))) % (2 ^ bd)

\* some pixel of the PALETTE image has an index outside the palette
BadPaletteIndex ==
    /\ image.header.color_type = PNG_COLOR_TYPE_PALETTE
    /\ \E y \in 0..(ToNat(image.header.height) - 1) :
         \E x \in 0..(ToNat(image.header.width) - 1) :
            SampleAt(image.image_data, ScanlineStride(image.header),
                     image.header.bit_depth, y, x) >= image.palette_size

\* C20: png_convert_to_rgba returns 0 and hands out no buffer for a
\* PALETTE image in which some pixel's index is palette_size or more.
C20_BadPaletteIndexFails ==
    (pc = "converted" /\ BadPaletteIndex) => (converted = 0 /\ rgba_data = NoRgba)

\* the four octets written for pixel x of row y (both from 0)
PixelOut(y, x) ==
    LET k == 4 * (y * ToNat(image.header.width) + x)
    IN <<rgba_data.bytes[k + 1], rgba_data.bytes[k + 2], rgba_data.bytes[k + 3],
         rgba_data.bytes[k + 4]>>

\* png_convert_to_rgba returned 1 for an image whose pixels are all listed
Converted ==
    /\ pc = "converted" /\ converted = 1
    /\ ProductFits(image.header.width, image.header.height)

\* the alpha of a PALETTE pixel by its own index
PaletteAlpha(index) ==
    IF image.transparency = <<>> THEN 255
    ELSE IF index < image.transparency_size THEN image.transparency[index + 1]
    ELSE 255

\* C21: for every pixel of a PALETTE image the alpha written is 255 without
\* tRNS, transparency[index] for an index below transparency_size and 255
\* for any other index, whatever the pixels before it in the row were.
C21_PaletteAlphaPerPixel ==
    (Converted /\ image.header.color_type = PNG_COLOR_TYPE_PALETTE) =>
      \A y \in 0..(ToNat(image.header.height) - 1) :
        \A x \in 0..(ToNat(image.header.width) - 1) :
          PixelOut(y, x)[4] =
            PaletteAlpha(SampleAt(image.image_data, ScanlineStride(image.header),
                                  image.header.bit_depth, y, x))

\* sample k of pixel x of row y at its full precision of bit_depth bits
SampleValue(y, x, k) ==
    LET n == x * Channels(image.header.color_type) + k
        stride == ScanlineStride(image.header)
    IN IF image.header.bit_depth = 16
       THEN image.image_data[y * stride + 2 * n + 1] * 256
            + image.image_data[y * stride + 2 * n + 2]
       ELSE SampleAt(image.image_data, stride, image.header.bit_depth, y, n)

\* the k-th 16-bit big-endian value of the tRNS payload
TrnsValue(k) == image.transparency[2 * k + 1] * 256 + image.transparency[2 * k + 2]

\* C22: for a GRAY or RGB image with tRNS the alpha written for a pixel is 0
\* when each of its samples, at full precision, equals the 16-bit value
\* stored for it in tRNS, and 255 otherwise.
C22_ColourKeyAlpha ==
    (/\ Converted
     /\ image.header.color_type \in {PNG_COLOR_TYPE_GRAY, PNG_COLOR_TYPE_RGB}
     /\ image.transparency # <<>>) =>
      \A y \in 0..(ToNat(image.header.height) - 1) :
        \A x \in 0..(ToNat(image.header.width) - 1) :
          PixelOut(y, x)[4] =
            (IF \A k \in 0..(Channels(image.header.color_type) - 1) :
                  SampleValue(y, x, k) = TrnsValue(k)
             THEN 0 ELSE 255)

\* C23: the four octets of each output pixel are R, G, B, A in this order;
\* stated for the 8-bit RGB and RGBA images, whose samples are the octets.
C23_OutputOrderRGBA ==
    (/\ Converted
     /\ image.header.color_type \in {PNG_COLOR_TYPE_RGB, PNG_COLOR_TYPE_RGBA}
     /\ image.header.bit_depth = 8
     /\ image.transparency = <<>>) =>
      \A y \in 0..(ToNat(image.header.height) - 1) :
        \A x \in 0..(ToNat(image.header.width) - 1) :
          PixelOut(y, x) =
            <<SampleValue(y, x, 0), SampleValue(y, x, 1), SampleValue(y, x, 2),
              IF image.header.color_type = PNG_COLOR_TYPE_RGBA
              THEN SampleValue(y, x, 3) ELSE 255>>

\* the blocks the image refers to
ImageBlocks == {heap.palette, heap.transparency, heap.image_data} \ {0}

\* C24: when png_read_file has returned, no block was freed twice, a failure
\* return leaves no block allocated, and a success return leaves exactly
\* the blocks the returned image refers to.
C24_EveryBlockFreedOnce ==
    (pc = "done") =>
      /\ ~heap.twice
      /\ (ret = 0 => heap.live = {})
      /\ (ret = 1 => heap.live = ImageBlocks)

\* the positions of the calls of function f in the history
CallsOf(f) == {i \in 1..Len(calls) : calls[i] = f}

\* C26: png_decompress_data is called only after IHDR, an IDAT and IEND
\* were read and the file was closed, and never after the chunk loop ended
\* on an error (which leaves has_iend clear); png_apply_filters is called
\* only right after a png_decompress_data that was not followed by the
\* clean-up of a failure.
C26_StageTwoOrder ==
    /\ \A j \in CallsOf("png_decompress_data") :
         /\ \E i \in Positions : IsIHDR(i)
         /\ \E i \in Positions : IsIDAT(i)
         /\ \E i \in Positions : IsIEND(i)
         /\ has_ihdr = 1 /\ has_idat = 1 /\ has_iend = 1
         /\ \E i \in CallsOf("fclose") : i < j
         /\ CallsOf("png_free_image") \cap 1..j = {}
    /\ \A j \in CallsOf("png_apply_filters") :
         /\ j > 1
         /\ calls[j - 1] = "png_decompress_data"

\* both stages ran and png_read_file returned 1
C26_Witness ==
    /\ pc = "done" /\ ret = 1
    /\ CallsOf("png_decompress_data") # {}
    /\ CallsOf("png_apply_filters") # {}

\* C28: every access of png_apply_filters stays inside its buffer: indices
\* 0 .. bytes_per_line - 1 of prev_line and current_line, indices below
\* image_data_size of image_data, and the write of row y ends before the
\* first source octet of row y + 1.
C28_FilterAccessesInBounds ==
    LET stride == ScanlineStride(raster.header)
        size == ToNat(raster.header.height) * (stride + 1)
    IN \A a \in accesses :
         /\ a.buf \in {"prev_line", "current_line"} => (a.lo >= 0 /\ a.hi <= stride - 1)
         /\ a.buf = "image_data" => (a.lo >= 0 /\ a.hi < size)
         /\ (a.buf = "image_data" /\ a.op = "write") => a.hi < (a.y + 1) * (stride + 1)

\* C29: every read of the raw pixel buffer made for a pixel of row y is at
\* an offset inside row y, and so below image_data_size.
C29_ReadsInsideRow ==
    LET row_bytes == ToNat(src_row_bytes(image.header))
    IN \A a \in accesses :
         a.buf = "src" =>
           /\ a.lo >= a.y * row_bytes
           /\ a.hi < (a.y + 1) * row_bytes
           /\ a.hi < image.image_data_size

\* C25: of two threads that call png_crc32 for the first time, at most one
\* executes the table-building loop, and no thread reads an entry of the
\* table that has not been written.
C25_TableBuiltOnce ==
    /\ Cardinality({t \in DOMAIN thread : thread[t].built}) <= 1
    /\ \A t \in DOMAIN thread : ~thread[t].unwritten

\* DisplayImage is running and has not reached CleanupImage
Loading == pc \in {"done", "pixels", "converted", "crashed"}

\* C30: a load that fails in png_read_file or png_convert_to_rgba leaves
\* g_imageData as it was when DisplayImage was entered; DisplayImage calls
\* CleanupImage only after both have returned 1; and between calls a NULL
\* bitmap goes with width 0 and height 0.
C30_FailedLoadKeepsImage ==
    /\ (Loading \/ (pc = "idle" /\ view.result \in {"read_failed", "convert_failed"})) =>
          g_imageData = view.entry
    /\ (Len(calls) > 0 /\ calls[1] = "png_read_file") =>
          \A j \in CallsOf("CleanupImage") :
            /\ ret = 1 /\ converted = 1
            /\ \E i \in CallsOf("png_convert_to_rgba") : i < j
    /\ (pc = "idle" /\ g_imageData.bitmap = 0) =>
          (g_imageData.width = Zero32 /\ g_imageData.height = Zero32)

\* an image is on display and the next load failed in the conversion
C30_Witness ==
    /\ pc = "idle"
    /\ view.result = "convert_failed"
    /\ g_imageData.bitmap # 0
    /\ g_imageData.width = U32(1)

\* the header of the stream that differs in the interlace method only
TwinHeader == OtherInterlace(raster.header)

\* the image the twin stream's png_read_file holds where this one holds image
TwinImage == [image EXCEPT !.header = TwinHeader]

\* C27: a stream and the stream that differs from it in the IHDR interlace
\* method only are both accepted, png_apply_filters returns the same result
\* and leaves the same raster for both, and png_convert_to_rgba returns the
\* same result, size and pixels for both.
C27_InterlaceIgnored ==
    /\ raster.twin = [ok |-> 1, ihdr |-> TwinHeader]
    /\ pc = "done" =>
         \E g \in GarbageBytes :
           LET t == png_apply_filters(FilteredInput, Len(FilteredInput), TwinHeader, g)
           IN /\ ret = t.ok
              /\ ret = 1 => image.image_data = t.data
    /\ pc \in {"pixels", "converted"} =>
         /\ rgba_size = output_size(TwinHeader)
         /\ pc = "pixels" => ConvertChecks(TwinImage) = 1
    /\ pc = "converted" =>
         IF \/ ConvertChecks(TwinImage) = 0
            \/ TwinHeader.color_type = PNG_COLOR_TYPE_PALETTE /\ image.palette = <<>>
         THEN converted = 0 /\ rgba_data = NoRgba
         ELSE \E u \in GarbageBytes :
                LET t == ConvertRows(TwinImage, 0, <<>>, u)
                IN converted = t.ok /\ rgba_data.bytes = t.out

\* an Adam7 stream of two pixels a row has been decoded and converted
C27_Witness ==
    /\ pc = "converted" /\ converted = 1
    /\ raster.header.interlace_method = PNG_INTERLACE_METHOD_ADAM7
    /\ raster.header.width = U32(2)
    /\ raster.header.height = U32(2)
    /\ Len(rgba_data.bytes) = 16

====
